---- MODULE Spec2Model ----
(***************************************************************************)
(* Model of the snarkOS transaction memory pool                            *)
(* (consensus/src/memory_pool.rs) together with the part of the ledger     *)
(* it reads and the block commits that run next to it.                     *)
(***************************************************************************)
EXTENDS Integers, Sequences, FiniteSets, TLC

(***************************************************************************)
(* Bounds of the model.                                                    *)
(***************************************************************************)
\* A caller may hand insert/remove an Entry whose size_in_bytes is up to
\* MaxSizeError above the serialized length of its transaction.
MaxSizeError == 1
\* Cap on how far total_size_in_bytes may run away from the sum of the
\* stored sizes (remove with a mis-sized argument moves it without limit).
MaxDrift == 1

(***************************************************************************)
(* Transactions.  A transaction is the record of what TransactionScheme    *)
(* exposes to the pool: old_serial_numbers, new_commitments, memorandum.   *)
(***************************************************************************)
Tx(sns, cms, memo) ==
    [old_serial_numbers |-> sns, new_commitments |-> cms, memorandum |-> memo]

\* The transactions the callers draw from:
\*   1 and 2 share a serial number, 2 and 3 share a commitment,
\*   3 and 4 share the memorandum, 1-3, 1-4 and 2-4 are unrelated,
\*   5 repeats a serial number, 6 repeats a commitment.
Universe ==
    << Tx(<<1>>,    <<1>>,    1),
       Tx(<<2, 1>>, <<2>>,    2),
       Tx(<<3>>,    <<3, 2>>, 3),
       Tx(<<4>>,    <<4>>,    3),
       Tx(<<5, 5>>, <<5>>,    5),
       Tx(<<6>>,    <<6, 6>>, 6) >>

Transactions == {Universe[i] : i \in 1..Len(Universe)}

NoTx == Tx(<<>>, <<>>, 0)

Range(s) == {s[i] : i \in 1..Len(s)}

\* transaction.transaction_id(): a deterministic, collision-free digest of
\* the transaction's contents (here: its position in Universe).
transaction_id(t) == CHOOSE i \in 1..Len(Universe) : Universe[i] = t

\* snarkvm_utilities::has_duplicates
has_duplicates(s) == \E i, j \in 1..Len(s) : i < j /\ s[i] = s[j]

(***************************************************************************)
(* Serialization (ToBytes / FromBytes).  A transaction is written as       *)
(*   <<#sns, sns..., #cms, cms..., memo>>                                  *)
(* and a transaction list as its length followed by its transactions.      *)
(***************************************************************************)
tx_to_bytes(t) ==
    <<Len(t.old_serial_numbers)>> \o t.old_serial_numbers \o
    <<Len(t.new_commitments)>> \o t.new_commitments \o <<t.memorandum>>

\* transaction.size(): the length of the transaction's serialization
tx_size(t) == Len(tx_to_bytes(t))

RECURSIVE concat_bytes(_)
concat_bytes(txs) ==
    IF txs = <<>> THEN <<>> ELSE tx_to_bytes(Head(txs)) \o concat_bytes(Tail(txs))

\* to_bytes![transactions]
to_bytes(txs) == <<Len(txs)>> \o concat_bytes(txs)

\* Tx::read: parses one transaction from the front of the bytes
tx_read(b) ==
    IF Len(b) < 1 \/ Len(b) < 1 + b[1] + 1 THEN [ok |-> FALSE, tx |-> NoTx, rest |-> <<>>]
    ELSE LET n  == b[1]
             m  == b[n + 2]
         IN  IF Len(b) < n + m + 3 THEN [ok |-> FALSE, tx |-> NoTx, rest |-> <<>>]
             ELSE [ok   |-> TRUE,
                   tx   |-> Tx(SubSeq(b, 2, n + 1), SubSeq(b, n + 3, n + m + 2), b[n + m + 3]),
                   rest |-> SubSeq(b, n + m + 4, Len(b))]

RECURSIVE read_n(_, _)
read_n(n, b) ==
    IF n = 0 THEN [ok |-> TRUE, txs |-> <<>>]
    ELSE LET r == tx_read(b)
         IN  IF ~r.ok THEN [ok |-> FALSE, txs |-> <<>>]
             ELSE LET rs == read_n(n - 1, r.rest)
                  IN  IF ~rs.ok THEN rs ELSE [ok |-> TRUE, txs |-> <<r.tx>> \o rs.txs]

\* DPCTransactions::<T>::read
DPCTransactions_read(b) ==
    IF Len(b) < 1 THEN [ok |-> FALSE, txs |-> <<>>] ELSE read_n(b[1], Tail(b))

(***************************************************************************)
(* Entries and pools.                                                      *)
(***************************************************************************)
Entry(size, t) == [size_in_bytes |-> size, transaction |-> t]

NoEntry == Entry(0, NoTx)

\* What a caller may pass: a transaction with its serialized length, or with
\* a length that is off by up to MaxSizeError.
Entries == {Entry(tx_size(t) + d, t) : t \in Transactions, d \in 0..MaxSizeError}

MemoryPool(map, total) == [transactions |-> map, total_size_in_bytes |-> total]

\* MemoryPool::new / Default
EmptyMap == [i \in {} |-> NoEntry]
new == MemoryPool(EmptyMap, 0)

(***************************************************************************)
(* The ledger as the pool sees it: the serial numbers, commitments and     *)
(* memoranda of the committed blocks, and the memory-pool slot.            *)
(***************************************************************************)
Ledger(sns, cms, memos, slot) ==
    [serial_numbers |-> sns, commitments |-> cms, memos |-> memos, memory_pool |-> slot]

\* The memory-pool slot: Option<Vec<u8>>
NoBlob == [present |-> FALSE, bytes |-> <<>>]
Blob(b) == [present |-> TRUE, bytes |-> b]

\* Bytes left in the slot by something else than store: they announce one
\* transaction and stop.
GarbageBytes == <<1, 7>>

contains_sn(storage, sn) == sn \in storage.serial_numbers
contains_cm(storage, cm) == cm \in storage.commitments
contains_memo(storage, memo) == memo \in storage.memos

\* storage.get_memory_pool(): Result<Option<Vec<u8>>, StorageError>
get_memory_pool(storage, io_ok) ==
    IF io_ok THEN [ok |-> TRUE, blob |-> storage.memory_pool]
    ELSE [ok |-> FALSE, blob |-> NoBlob]

\* storage.store_to_memory_pool(bytes): Result<(), StorageError>
store_to_memory_pool(storage, bytes, io_ok) ==
    IF io_ok
    THEN [ok |-> TRUE,
          storage |-> Ledger(storage.serial_numbers, storage.commitments,
                             storage.memos, Blob(bytes))]
    ELSE [ok |-> FALSE, storage |-> storage]

\* storage.insert_and_commit(block) for a block carrying transaction t: the
\* block is refused when t repeats a serial number or a commitment or reuses
\* one the ledger holds; otherwise everything t carries becomes committed.
insert_and_commit(storage, t) ==
    IF \/ has_duplicates(t.old_serial_numbers)
       \/ has_duplicates(t.new_commitments)
       \/ Range(t.old_serial_numbers) \cap storage.serial_numbers # {}
       \/ Range(t.new_commitments) \cap storage.commitments # {}
       \/ t.memorandum \in storage.memos
    THEN [ok |-> FALSE, storage |-> storage]
    ELSE [ok |-> TRUE,
          storage |-> Ledger(storage.serial_numbers \cup Range(t.old_serial_numbers),
                             storage.commitments \cup Range(t.new_commitments),
                             storage.memos \cup {t.memorandum},
                             storage.memory_pool)]

(***************************************************************************)
(* MemoryPool operations.  None is the id 0; ids are 1..Len(Universe).     *)
(***************************************************************************)
None == 0

\* MemoryPool::contains
contains(pool, entry) == transaction_id(entry.transaction) \in DOMAIN pool.transactions

\* The three holding vectors insert collects from the stored entries.
holding_serial_numbers(pool) ==
    UNION {Range(pool.transactions[k].transaction.old_serial_numbers) :
           k \in DOMAIN pool.transactions}

holding_commitments_no_extend(pool) == {}

holding_commitments(pool) ==
    UNION {Range(pool.transactions[k].transaction.new_commitments) :
           k \in DOMAIN pool.transactions}

holding_memos(pool) ==
    {pool.transactions[k].transaction.memorandum : k \in DOMAIN pool.transactions}

sn_conflict_first_only(pool, storage, sns) ==
    /\ Len(sns) > 0
    /\ contains_sn(storage, sns[1]) \/ sns[1] \in holding_serial_numbers(pool)

\* for sn in transaction_serial_numbers { ... return Ok(None) }
sn_conflict(pool, storage, sns) ==
    \E i \in 1..Len(sns) :
        contains_sn(storage, sns[i]) \/ sns[i] \in holding_serial_numbers(pool)

\* for cm in transaction_commitments { ... return Ok(None) }
cm_conflict(pool, storage, cms) ==
    \E i \in 1..Len(cms) :
        contains_cm(storage, cms[i]) \/ cms[i] \in holding_commitments(pool)

memo_conflict_pool_only(pool, storage, memo) == memo \in holding_memos(pool)

\* if storage.contains_memo(..) || holding_memos.contains(..) { return Ok(None) }
memo_conflict(pool, storage, memo) ==
    contains_memo(storage, memo) \/ memo \in holding_memos(pool)

\* The early returns of insert, in the order the code takes them.
rejects(pool, storage, entry) ==
    \/ has_duplicates(entry.transaction.old_serial_numbers)
    \/ has_duplicates(entry.transaction.new_commitments)
    \/ contains(pool, entry)
    \/ sn_conflict(pool, storage, entry.transaction.old_serial_numbers)
    \/ cm_conflict(pool, storage, entry.transaction.new_commitments)
    \/ memo_conflict(pool, storage, entry.transaction.memorandum)

\* HashMap::insert
map_insert(map, k, v) == [x \in DOMAIN map \cup {k} |-> IF x = k THEN v ELSE map[x]]

\* HashMap::remove
map_remove(map, k) == [x \in DOMAIN map \ {k} |-> map[x]]

insert_counts_before_checking(pool, storage, entry) ==
    IF rejects(pool, storage, entry)
    THEN [pool |-> MemoryPool(pool.transactions,
                              pool.total_size_in_bytes + entry.size_in_bytes),
          id |-> None]
    ELSE [pool |-> MemoryPool(map_insert(pool.transactions,
                                         transaction_id(entry.transaction), entry),
                              pool.total_size_in_bytes + entry.size_in_bytes),
          id |-> transaction_id(entry.transaction)]

\* MemoryPool::insert.  The result is Ok(id) or Ok(None); the addition stays
\* far below usize::MAX for the sizes of this model.
insert(pool, storage, entry) ==
    IF rejects(pool, storage, entry)
    THEN [pool |-> pool, id |-> None]
    ELSE [pool |-> MemoryPool(map_insert(pool.transactions,
                                         transaction_id(entry.transaction), entry),
                              pool.total_size_in_bytes + entry.size_in_bytes),
          id |-> transaction_id(entry.transaction)]

\* The entries are inserted one after the other (the loops of cleanse and
\* from_storage), starting from pool.
RECURSIVE insert_each(_, _, _)
insert_each(pool, storage, entries) ==
    IF entries = <<>> THEN pool
    ELSE insert_each(insert(pool, storage, Head(entries)).pool, storage, Tail(entries))

\* The orders in which a HashMap may iterate over its keys.
iteration_orders(map) ==
    {o \in [1..Cardinality(DOMAIN map) -> DOMAIN map] :
        \A i, j \in 1..Cardinality(DOMAIN map) : o[i] = o[j] => i = j}

cleanse_keeps_total(pool, storage, order) ==
    MemoryPool(insert_each(new, storage,
                           [i \in 1..Len(order) |-> pool.transactions[order[i]]]).transactions,
               pool.total_size_in_bytes)

\* MemoryPool::cleanse, iterating in the given order
cleanse(pool, storage, order) ==
    insert_each(new, storage, [i \in 1..Len(order) |-> pool.transactions[order[i]]])

(***************************************************************************)
(* usize arithmetic.  total_size_in_bytes is a usize; the model keeps the  *)
(* representative of its value modulo 2^64 that lies nearest to 0, so -1   *)
(* stands for usize::MAX.  A subtraction below 0 panics in a build with    *)
(* overflow checks and wraps in a build without them.                      *)
(***************************************************************************)
usize_sub(a, b, checks) ==
    IF checks /\ a < b THEN [panic |-> TRUE, value |-> a]
    ELSE [panic |-> FALSE, value |-> a - b]

\* MemoryPool::remove
remove(pool, entry, checks) ==
    IF contains(pool, entry)
    THEN LET d == usize_sub(pool.total_size_in_bytes, entry.size_in_bytes, checks)
         IN  IF d.panic THEN [pool |-> pool, id |-> None, panic |-> TRUE]
             ELSE [pool  |-> MemoryPool(map_remove(pool.transactions,
                                                   transaction_id(entry.transaction)),
                                        d.value),
                   id    |-> transaction_id(entry.transaction),
                   panic |-> FALSE]
    ELSE [pool |-> pool, id |-> None, panic |-> FALSE]

remove_by_hash_keeps_total(pool, id, checks) ==
    IF id \in DOMAIN pool.transactions
    THEN [pool  |-> MemoryPool(map_remove(pool.transactions, id), pool.total_size_in_bytes),
          entry |-> pool.transactions[id],
          panic |-> FALSE]
    ELSE [pool |-> pool, entry |-> NoEntry, panic |-> FALSE]

\* MemoryPool::remove_by_hash; entry = NoEntry stands for Ok(None)
remove_by_hash(pool, id, checks) ==
    IF id \in DOMAIN pool.transactions
    THEN LET entry == pool.transactions[id]
             d     == usize_sub(pool.total_size_in_bytes, entry.size_in_bytes, checks)
         IN  IF d.panic THEN [pool |-> pool, entry |-> NoEntry, panic |-> TRUE]
             ELSE [pool  |-> MemoryPool(map_remove(pool.transactions, id), d.value),
                   entry |-> entry,
                   panic |-> FALSE]
    ELSE [pool |-> pool, entry |-> NoEntry, panic |-> FALSE]

store_skips_first(pool, storage, order, io_ok) ==
    store_to_memory_pool(storage,
        to_bytes([i \in 1..(Len(order) - 1) |-> pool.transactions[order[i + 1]].transaction]),
        io_ok)

\* MemoryPool::store, iterating in the given order
store(pool, storage, order, io_ok) ==
    store_to_memory_pool(storage,
        to_bytes([i \in 1..Len(order) |-> pool.transactions[order[i]].transaction]),
        io_ok)

\* MemoryPool::from_storage.  Every outcome is Ok(memory_pool).
from_storage(storage, io_ok) ==
    LET got == get_memory_pool(storage, io_ok)
    IN  IF got.ok /\ got.blob.present
        THEN LET read == DPCTransactions_read(got.blob.bytes)
             IN  IF read.ok
                 THEN [ok   |-> TRUE,
                       pool |-> insert_each(new, storage,
                                    [i \in 1..Len(read.txs) |->
                                        Entry(tx_size(read.txs[i]), read.txs[i])])]
                 ELSE [ok |-> TRUE, pool |-> new]
        ELSE [ok |-> TRUE, pool |-> new]

(***************************************************************************)
(* Candidate selection.                                                    *)
(***************************************************************************)
\* BlockHeader::size(): the fixed length of a serialized block header; the
\* blocks of this model have headers of one byte.
BLOCK_HEADER_SIZE == 1
COINBASE_TRANSACTION_SIZE == 1490

\* a <= b on usize values given by their representatives (a negative
\* representative stands for a value just below 2^64)
usize_le(a, b) == IF (a < 0) = (b < 0) THEN a <= b ELSE b < 0

\* storage.transaction_conflicts(transaction)
transaction_conflicts(storage, t) ==
    \/ has_duplicates(t.old_serial_numbers)
    \/ has_duplicates(t.new_commitments)
    \/ \E i \in 1..Len(t.old_serial_numbers) : contains_sn(storage, t.old_serial_numbers[i])
    \/ \E i \in 1..Len(t.new_commitments) : contains_cm(storage, t.new_commitments[i])
    \/ contains_memo(storage, t.memorandum)

\* DPCTransactions::conflicts: t shares a serial number, a commitment or the
\* memorandum with one of the selected entries
conflicts(selected, t) ==
    \E i \in 1..Len(selected) :
        \/ Range(selected[i].transaction.old_serial_numbers) \cap Range(t.old_serial_numbers) # {}
        \/ Range(selected[i].transaction.new_commitments) \cap Range(t.new_commitments) # {}
        \/ selected[i].transaction.memorandum = t.memorandum

candidate_conflicts_ignores_ledger(storage, selected, t) == conflicts(selected, t)

\* if storage.transaction_conflicts(..) || transactions.conflicts(..) { continue; }
candidate_conflicts(storage, selected, t) ==
    transaction_conflicts(storage, t) \/ conflicts(selected, t)

RECURSIVE select_candidates_stops_when_full(_, _, _, _, _)
select_candidates_stops_when_full(entries, storage, max_size, block_size, selected) ==
    IF entries = <<>> THEN selected
    ELSE LET entry == Head(entries)
         IN  IF ~usize_le(block_size + entry.size_in_bytes, max_size)
             THEN selected
             ELSE IF candidate_conflicts(storage, selected, entry.transaction)
             THEN select_candidates_stops_when_full(Tail(entries), storage, max_size,
                                                    block_size, selected)
             ELSE select_candidates_stops_when_full(Tail(entries), storage, max_size,
                                                    block_size + entry.size_in_bytes,
                                                    Append(selected, entry))

\* The loop of get_candidates over the entries in iteration order.  selected
\* is the list of the entries whose transactions have been pushed.
RECURSIVE select_candidates(_, _, _, _, _)
select_candidates(entries, storage, max_size, block_size, selected) ==
    IF entries = <<>> THEN selected
    ELSE LET entry == Head(entries)
         IN  IF /\ usize_le(block_size + entry.size_in_bytes, max_size)
                /\ ~candidate_conflicts(storage, selected, entry.transaction)
             THEN select_candidates(Tail(entries), storage, max_size,
                                    block_size + entry.size_in_bytes,
                                    Append(selected, entry))
             ELSE select_candidates(Tail(entries), storage, max_size, block_size, selected)

\* MemoryPool::get_candidates, iterating in the given order
get_candidates(pool, storage, max_size, order, checks) ==
    LET d == usize_sub(max_size, BLOCK_HEADER_SIZE + COINBASE_TRANSACTION_SIZE, checks)
    IN  IF d.panic THEN [panic |-> TRUE, selected |-> <<>>]
        ELSE [panic    |-> FALSE,
              selected |-> select_candidates(
                               [i \in 1..Len(order) |-> pool.transactions[order[i]]],
                               storage, d.value, 0, <<>>)]

\* The payloads asked for beyond the header and the coinbase transaction
Budgets == {0, 5, 6, 11}

\* The max_size arguments of get_candidates
MaxSizes ==
    {0, BLOCK_HEADER_SIZE + COINBASE_TRANSACTION_SIZE - 1}
        \cup {BLOCK_HEADER_SIZE + COINBASE_TRANSACTION_SIZE + b : b \in Budgets}

(***************************************************************************)
(* The sync master: choosing the peers to ask.                             *)
(***************************************************************************)
\* A peer of the peer-book snapshot: its address, its advertised height,
\* what judge_bad() says of it, and whether get_peer_handle finds a handle.
Peer(address, block_height, judge_bad, handle) ==
    [address |-> address, block_height |-> block_height, judge_bad |-> judge_bad,
     handle |-> handle]

is_interesting_ignores_judge_bad(node, our_height) == node.block_height > our_height + 1

\* if !judge_bad && node.quality.block_height > our_block_height + 1
is_interesting(node, our_height) ==
    ~node.judge_bad /\ node.block_height > our_height + 1

\* Where sort_by, a stable sort, puts node among nodes already sorted by
\* descending height: behind every node at least as high.
sorted_insert(sorted, node) ==
    LET n == Cardinality({i \in 1..Len(sorted) : sorted[i].block_height >= node.block_height})
    IN  SubSeq(sorted, 1, n) \o <<node>> \o SubSeq(sorted, n + 1, Len(sorted))

\* interesting_peers.sort_by(|x, y| y.quality.block_height.cmp(&x.quality.block_height))
RECURSIVE sort_by_height(_, _)
sort_by_height(nodes, sorted) ==
    IF nodes = <<>> THEN sorted
    ELSE sort_by_height(Tail(nodes), sorted_insert(sorted, Head(nodes)))

\* position(|x| x.quality.block_height <= our_block_height + 10), then
\* truncate(i + 1): the list is cut behind the first peer that close to us.
trim_close(nodes, our_height) ==
    LET close == {i \in 1..Len(nodes) : nodes[i].block_height <= our_height + 10}
    IN  IF close = {} THEN nodes
        ELSE SubSeq(nodes, 1, CHOOSE i \in close : \A j \in close : i <= j)

\* SyncMaster::find_sync_nodes on a snapshot of the peer book
find_sync_nodes(snapshot, our_height) ==
    trim_close(sort_by_height(SelectSeq(snapshot, LAMBDA node : is_interesting(node, our_height)),
                              <<>>),
               our_height)

\* The hashes of the blocks the ledger holds
LedgerHashes == {1}

\* ledger.block_hash_exists(hash)
block_hash_exists(hash) == hash \in LedgerHashes

\* SyncMaster::block_locator_hashes: the locator read from storage, or
\* nothing when the read fails
block_locator_hashes(storage_ok) == IF storage_ok THEN <<1>> ELSE <<>>

\* const TIMEOUT: u64 = 5 of receive_sync_hashes, in seconds
HASHES_TIMEOUT == 5

\* A message handed to a peer's handle
Outbound(to, payload, hashes) == [to |-> to, payload |-> payload, hashes |-> hashes]

\* SyncMaster::send_sync_messages: GetSync goes to the sync nodes that have
\* a handle, in the order of the list.
get_sync_messages(nodes, locator) ==
    LET with_handle == SelectSeq(nodes, LAMBDA node : node.handle)
    IN  [i \in 1..Len(with_handle) |->
            Outbound(with_handle[i].address, "GetSync", locator)]

(***************************************************************************)
(* The sync master: planning.                                              *)
(***************************************************************************)
\* The longest list of hashes a peer answers with
MaxHashes == 3

\* Block header hashes
Hashes == {1, 2, 3, 4}

\* Peer addresses
Addrs == {"A", "B", "C"}

\* The lists of hashes a BlockHashes message can carry
HashLists == UNION {[1..n -> Hashes] : n \in 0..MaxHashes}

\* (SocketAddr, Vec<BlockHeaderHash>)
PeerHashes(addr, hashes) == [addr |-> addr, hashes |-> hashes]

\* The body of the for loop of order_block_hashes for one peer's list.  The
\* mutant below pushes a hash whether it has been seen or not.
order_cell_pushes_seen(acc, hashes, block_index) ==
    IF block_index <= Len(hashes)
    THEN [block_order |-> Append(acc.block_order, hashes[block_index]),
          seen        |-> acc.seen \cup {hashes[block_index]},
          found_row   |-> TRUE]
    ELSE acc

order_cell(acc, hashes, block_index) ==
    IF block_index <= Len(hashes)
    THEN LET hash == hashes[block_index]
         IN  IF hash \in acc.seen
             THEN [acc EXCEPT !.found_row = TRUE]
             ELSE [block_order |-> Append(acc.block_order, hash),
                   seen        |-> acc.seen \cup {hash},
                   found_row   |-> TRUE]
    ELSE acc

\* for (_, hashes) in input { .. } at one block_index
RECURSIVE order_row(_, _, _)
order_row(input, block_index, acc) ==
    IF input = <<>> THEN acc
    ELSE order_row(Tail(input), block_index,
                   order_cell(acc, Head(input).hashes, block_index))

\* loop { .. block_index += 1; if !found_row { break; } }
\* (block_index counts from 1 here, from 0 in the code)
RECURSIVE order_rows(_, _, _, _)
order_rows(input, block_index, block_order, seen) ==
    LET acc == order_row(input, block_index,
                         [block_order |-> block_order, seen |-> seen, found_row |-> FALSE])
    IN  IF acc.found_row
        THEN order_rows(input, block_index + 1, acc.block_order, acc.seen)
        ELSE acc.block_order

\* SyncMaster::order_block_hashes
order_block_hashes(input) == order_rows(input, 1, <<>>, {})

(***************************************************************************)
(* The sync master: requesting and ingesting blocks.                       *)
(***************************************************************************)
\* const TIMEOUT: u64 = 30 of receive_sync_blocks and its moving timeout
BLOCKS_TIMEOUT == 30
BLOCKS_MOVING_TIMEOUT == 4

\* SyncInbound::BlockHashes(addr, hashes) and SyncInbound::Block(addr, block)
BlockHashesEvent(addr, hashes) ==
    [kind |-> "BlockHashes", addr |-> addr, hashes |-> hashes, block |-> <<>>]
BlockEvent(addr, block) ==
    [kind |-> "Block", addr |-> addr, hashes |-> <<>>, block |-> block]

\* No event has been taken from the sync channel
NoEvent == [kind |-> "None", addr |-> "", hashes |-> <<>>, block |-> <<>>]

\* SyncBlock { address, block }
SyncBlock(address, block) == [address |-> address, block |-> block]

\* self.node.peer_book.get_peer_handle(addr).is_some()
get_peer_handle(book, addr) ==
    \E i \in 1..Len(book) : book[i].address = addr /\ book[i].handle

unknown_blocks_unfiltered(early_blocks) == early_blocks

\* early_blocks.into_iter().filter(|x| !ledger.block_hash_exists(x)).collect()
unknown_blocks(early_blocks) == SelectSeq(early_blocks, LAMBDA x : ~block_hash_exists(x))

\* The orders in which a HashMap with the given keys can be iterated
key_orders(keys) ==
    {order \in [1..Cardinality(keys) -> keys] :
        \A i, j \in 1..Cardinality(keys) : i # j => order[i] # order[j]}

map_put_keeps_first(map, key, value) ==
    [k \in DOMAIN map \cup {key} |-> IF k \in DOMAIN map THEN map[k] ELSE value]

\* received_block_hashes.insert(addr, hashes)
map_put(map, key, value) ==
    [k \in DOMAIN map \cup {key} |-> IF k = key THEN value ELSE map[k]]

\* SyncMaster::block_peer_map: for each hash the peers that listed it, once
\* for each time they did, in the order of blocks
RECURSIVE block_peer_map(_)
block_peer_map(blocks) ==
    IF blocks = <<>> THEN <<>>
    ELSE LET rest   == block_peer_map(SubSeq(blocks, 1, Len(blocks) - 1))
             peer   == blocks[Len(blocks)]
             listed == {peer.hashes[i] : i \in 1..Len(peer.hashes)}
             times(h) == Cardinality({i \in 1..Len(peer.hashes) : peer.hashes[i] = h})
         IN  [h \in DOMAIN rest \cup listed |->
                 (IF h \in DOMAIN rest THEN rest[h] ELSE <<>>)
                     \o (IF h \in listed THEN [i \in 1..times(h) |-> peer.addr] ELSE <<>>)]

peer_choices_any_peer(blocks, peer_map) ==
    [{blocks[i] : i \in 1..Len(blocks)} \cap DOMAIN peer_map -> Addrs]

\* The ways get_peer_blocks can draw a peer for each hash of blocks
peer_choices(blocks, peer_map) ==
    LET asked == {blocks[i] : i \in 1..Len(blocks)} \cap DOMAIN peer_map
    IN  {choice \in [asked -> Addrs] :
            \A h \in asked : \E i \in 1..Len(peer_map[h]) : peer_map[h][i] = choice[h]}

\* SyncMaster::get_peer_blocks with the peers drawn as in block_peers: the
\* hashes each drawn peer is to be asked for, in the order of blocks
get_peer_blocks(blocks, block_peers) ==
    [addr \in {block_peers[h] : h \in DOMAIN block_peers} |->
        SelectSeq(blocks, LAMBDA h : h \in DOMAIN block_peers /\ block_peers[h] = addr)]

\* What a call on the node or on a peer handle is logged as
NodeCall(op, addr, arg, ok) == [op |-> op, addr |-> addr, arg |-> arg, ok |-> ok]

\* SyncMaster::request_blocks, the requests iterated in the given order: the
\* peers with a handle
requested_peers(book, order) == SelectSeq(order, LAMBDA addr : get_peer_handle(book, addr))

\* futures::future::join_all over n futures of two steps each: the orders
\* in which the futures can take their steps, each entry naming the future
\* that takes its next step.  The futures are first polled in the order of
\* the list, so that the first step taken is one of the first future.
join_all(n) ==
    {poll \in [1..2 * n -> 1..n] :
        /\ \A f \in 1..n : Cardinality({j \in 1..2 * n : poll[j] = f}) = 2
        /\ n > 0 => poll[1] = 1}

\* The step a future of request_blocks takes at entry j of poll: the first
\* or the second
first_step(poll, j) == \A i \in 1..j - 1 : poll[i] # poll[j]

request_blocks_sends_before_expecting(book, requests, order, poll) ==
    LET to == requested_peers(book, order)
    IN  [j \in 1..Len(poll) |->
            IF first_step(poll, j)
            THEN NodeCall("send_payload", to[poll[j]],
                          Outbound(to[poll[j]], "GetBlocks", requests[to[poll[j]]]), TRUE)
            ELSE NodeCall("expecting_sync_blocks", to[poll[j]],
                          Len(requests[to[poll[j]]]), TRUE)]

\* SyncMaster::request_blocks, the futures polled as in poll: each future
\* calls expecting_sync_blocks on its peer and then sends it GetBlocks.
request_blocks_calls(book, requests, order, poll) ==
    LET to == requested_peers(book, order)
    IN  [j \in 1..Len(poll) |->
            IF first_step(poll, j)
            THEN NodeCall("expecting_sync_blocks", to[poll[j]],
                          Len(requests[to[poll[j]]]), TRUE)
            ELSE NodeCall("send_payload", to[poll[j]],
                          Outbound(to[poll[j]], "GetBlocks", requests[to[poll[j]]]), TRUE)]

\* The messages that a sequence of calls hands to peer handles
RECURSIVE sent_payloads(_)
sent_payloads(log) ==
    IF log = <<>> THEN <<>>
    ELSE (IF Head(log).op = "send_payload" THEN <<Head(log).arg>> ELSE <<>>)
             \o sent_payloads(Tail(log))

\* The number of hashes asked for in the GetBlocks messages of a log
RECURSIVE sent_block_requests(_)
sent_block_requests(messages) ==
    IF messages = <<>> THEN 0
    ELSE (IF Head(messages).payload = "GetBlocks" THEN Len(Head(messages).hashes) ELSE 0)
             + sent_block_requests(Tail(messages))

\* The number of GetSync messages of a log
hash_requests_sent(messages) ==
    Cardinality({i \in 1..Len(messages) : messages[i].payload = "GetSync"})

\* SyncMaster::cancel_outstanding_syncs
cancel_outstanding_syncs(book, addresses) ==
    LET to == requested_peers(book, addresses)
    IN  [i \in 1..Len(to) |-> NodeCall("cancel_sync", to[i], 0, TRUE)]

propagate_swallows(ok) == "running"

\* process_received_block(..).await?: an error is what run returns
propagate(ok) == IF ok THEN "running" ELSE "Err"

\* double_sha256 of a block header of BLOCK_HEADER_SIZE bytes
double_sha256(block_header) == 5 - block_header[1]

\* &block.block[..BlockHeader::size()] panics on a block shorter than a header
too_short(block) == Len(block) < BLOCK_HEADER_SIZE

\* BlockHeaderHash(double_sha256(&block.block[..BlockHeader::size()]))
header_hash(block) == double_sha256(SubSeq(block, 1, BLOCK_HEADER_SIZE))

index_blocks_keeps_first(received) ==
    [h \in {header_hash(received[i].block) : i \in 1..Len(received)} |->
        received[CHOOSE i \in 1..Len(received) :
                    /\ header_hash(received[i].block) = h
                    /\ \A j \in 1..Len(received) :
                           header_hash(received[j].block) = h => i <= j]]

\* for block in received_blocks { .. blocks_by_hash.insert(hash, block); }
\* on blocks none of which is too short
RECURSIVE index_blocks(_)
index_blocks(received) ==
    IF received = <<>> THEN <<>>
    ELSE LET block == received[Len(received)]
         IN  map_put(index_blocks(SubSeq(received, 1, Len(received) - 1)),
                     header_hash(block.block), block)

(***************************************************************************)
(* The inbound router: what Peer::inner_dispatch_payload does to the peer  *)
(* of its connection.                                                      *)
(***************************************************************************)
\* Cap on the payloads the handler is given on one connection
MaxMessages == 3

\* u64::MAX.  As with usize, a u64 is kept as the representative of its
\* value modulo 2^64 that lies nearest to 0.
U64_MAX == -1

\* A payload as the handler sees it: its variant and, for Ping, the height
Payload(kind, block_height) == [kind |-> kind, block_height |-> block_height]

NoPayload == Payload("None", 0)

\* What the connection delivers: payloads, or the error of a failed read
\* (Result<Payload, NetworkError>)
InboundPayloads ==
    {Payload(kind, 0) : kind \in {"Err", "Pong", "Sync", "SyncBlock"}}
        \cup {Payload("Ping", 7)}

\* The milliseconds last_ping_sent.elapsed().as_millis() can give: the age of
\* a ping of this connection, far below 2^63, so that `as u64` keeps it
ElapsedMillis == {0, 250}

\* A connected peer no payload was dispatched for yet.  last_ping_sent is
\* "None" or "Some"; the instant itself is read through elapsed() only.
PeerConnected(expecting_pong, last_ping_sent, rtt_ms) ==
    [address               |-> "A",
     expecting_pong        |-> expecting_pong,     \* quality.expecting_pong
     last_ping_sent        |-> last_ping_sent,     \* quality.last_ping_sent
     rtt_ms                |-> rtt_ms,             \* quality.rtt_ms
     block_height          |-> 0,                  \* quality.block_height
     num_messages_received |-> 0,                  \* quality.num_messages_received
     seen                  |-> FALSE,              \* quality.see() was called
     failures              |-> 0,                  \* the calls of self.fail()
     inbound_pongs         |-> 0,                  \* the counter stats::INBOUND_PONGS
     inbound_pings         |-> 0,                  \* the counter stats::INBOUND_PINGS
     written               |-> <<>>,               \* the payloads written to the peer
     routed                |-> <<>>,               \* the messages given to node.route
     payload               |-> NoPayload,          \* the payload last dispatched
     elapsed               |-> 0,                  \* what elapsed() last gave, in ms
     result                |-> "Ok"]               \* what the handler last returned

NoInboundPeer == PeerConnected(FALSE, "None", 0)

\* Message { direction: Direction::Inbound(self.address), payload }
InboundMessage(address, payload) == [direction |-> <<"Inbound", address>>, payload |-> payload]

round_trip_zero_when_missing(last_ping_sent, elapsed) ==
    IF last_ping_sent = "None" THEN 0 ELSE elapsed

\* last_ping_sent.map(|x| x.elapsed().as_millis() as u64).unwrap_or(u64::MAX)
round_trip(last_ping_sent, elapsed) ==
    IF last_ping_sent = "None" THEN U64_MAX ELSE elapsed

\* self.fail(): the peer is marked as having failed a protocol expectation
fail(this) == [this EXCEPT !.failures = @ + 1]

\* The arm Payload::Pong of the handler
dispatch_pong(this, elapsed) ==
    LET judged == IF this.expecting_pong
                  THEN [this EXCEPT !.expecting_pong = FALSE,
                                    !.rtt_ms = round_trip(this.last_ping_sent, elapsed),
                                    !.elapsed = IF this.last_ping_sent = "None"
                                                THEN this.elapsed ELSE elapsed]
                  ELSE fail(this)
    IN  [judged EXCEPT !.inbound_pongs = @ + 1]

\* The arm Payload::Ping(block_height) of the handler; the write of the Pong
\* succeeds or fails.
dispatch_ping(this, block_height, write_ok) ==
    IF write_ok
    THEN [this EXCEPT !.written = Append(@, Payload("Pong", 0)),
                      !.block_height = block_height,
                      !.inbound_pings = @ + 1]
    ELSE [this EXCEPT !.result = "Err"]

\* Peer::inner_dispatch_payload
inner_dispatch_payload(this, payload, elapsed, write_ok) ==
    IF payload.kind = "Err"
    THEN [this EXCEPT !.payload = payload, !.result = "Err"]
    ELSE LET received == [this EXCEPT !.seen = TRUE,
                                      !.num_messages_received = @ + 1,
                                      !.payload = payload,
                                      !.result = "Ok"]
         IN  CASE payload.kind = "Pong" -> dispatch_pong(received, elapsed)
               [] payload.kind = "Ping" ->
                      dispatch_ping(received, payload.block_height, write_ok)
               [] OTHER ->
                      [received EXCEPT
                          !.routed = Append(@, InboundMessage(this.address, payload))]

(***************************************************************************)
(* State.                                                                  *)
(***************************************************************************)
VARIABLES
    transactions,          \* MemoryPool.transactions of the node's pool
    total_size_in_bytes,   \* MemoryPool.total_size_in_bytes
    storage,               \* the ledger
    overflow_checks,       \* whether the build panics on integer overflow
    panicked,              \* a call has panicked
    observed,              \* which calls are logged: "pool" or "storage"
    last,                  \* the most recent logged call: its argument, its
                           \* result and the pool it was made on
    candidates,            \* the entries selected by the most recent
                           \* get_candidates call
    sync,                  \* the sync master and its run (see RunIdle)
    inbound_peer           \* the peer of one connection and what its inbound
                           \* handler has done (see PeerConnected)

vars == <<transactions, total_size_in_bytes, storage, overflow_checks, panicked,
          observed, last, candidates, sync, inbound_peer>>

\* The sync master before a run: the fields of SyncMaster::run and of the
\* functions it calls, and the log of what the run does.
RunIdle ==
    [pc                    |-> "idle",      \* the step the run is at
     peer_book             |-> <<>>,        \* connected_peers_snapshot()
     our_block_height      |-> 0,           \* current_block_height()
     sync_nodes            |-> <<>>,        \* the peers find_sync_nodes returned
     received_block_hashes |-> <<>>,        \* the hash lists answered, by peer
     block_order           |-> <<>>,        \* the plan of block hashes
     peer_addresses        |-> <<>>,        \* the peers that were assigned blocks
     block_peers           |-> <<>>,        \* the peer drawn for each hash
     peer_block_requests   |-> <<>>,        \* the hashes to ask each peer for
     received_blocks       |-> <<>>,        \* what receive_sync_blocks returned
     blocks_by_hash        |-> <<>>,        \* the received blocks by header hash
     next_block            |-> 1,           \* the index ingestion is at
     now                   |-> 0,           \* receive_messages: the clock, in
                                            \* seconds since it was entered
     end                   |-> 0,           \* receive_messages: overall deadline
     moving_end            |-> 0,           \* receive_messages: moving deadline
     closed                |-> FALSE,       \* every sender of the sync channel
                                            \* has been dropped
     outbound              |-> <<>>,        \* the messages handed to peer
                                            \* handles, in order
     calls                 |-> <<>>,        \* the calls made on the node and on
                                            \* peer handles, in order
     result                |-> "running",   \* what run has returned
     late                  |-> FALSE,       \* an event was taken from the channel
                                            \* after the overall deadline
     premature             |-> {},          \* the header hashes of the blocks
                                            \* receive_sync_hashes dropped
     event                 |-> NoEvent,     \* the event the handler of
                                            \* receive_messages was last given
     replaced              |-> FALSE]       \* receive_sync_hashes was given the
                                            \* hashes of a peer it already had
                                            \* hashes of

pc == sync.pc
peer_book == sync.peer_book
our_block_height == sync.our_block_height
sync_nodes == sync.sync_nodes
received_block_hashes == sync.received_block_hashes
block_order == sync.block_order
peer_addresses == sync.peer_addresses
block_peers == sync.block_peers
peer_block_requests == sync.peer_block_requests
received_blocks == sync.received_blocks
blocks_by_hash == sync.blocks_by_hash
next_block == sync.next_block
now == sync.now
end == sync.end
moving_end == sync.moving_end
closed == sync.closed
outbound == sync.outbound
calls == sync.calls
result == sync.result
late == sync.late
premature == sync.premature
event == sync.event
replaced == sync.replaced

\* The sync master at rest
NodeIdle == sync = RunIdle /\ inbound_peer = NoInboundPeer

pool == MemoryPool(transactions, total_size_in_bytes)

Call(op, entry, key, io, status, id, removed, before) ==
    [op |-> op, entry |-> entry, key |-> key, io |-> io,
     status |-> status, id |-> id, removed |-> removed, before |-> before]

\* What is logged for a call that is not observed
Unobserved == Call("unobserved", NoEntry, None, TRUE, "Ok", None, NoEntry, new)

Observe(kind, call) == IF observed = kind THEN call ELSE Unobserved

Status(r) == IF r.panic THEN "Panic" ELSE "Ok"

RECURSIVE SumOver(_, _)
SumOver(map, keys) ==
    IF keys = {} THEN 0
    ELSE LET k == CHOOSE x \in keys : TRUE
         IN  map[k].size_in_bytes + SumOver(map, keys \ {k})

\* The sum of size_in_bytes over the entries of a map
SumSizes(map) == SumOver(map, DOMAIN map)

Abs(x) == IF x < 0 THEN -x ELSE x

\* An empty pool on an empty ledger, the pool's calls observed.
Init ==
    /\ transactions = EmptyMap
    /\ total_size_in_bytes = 0
    /\ storage = Ledger({}, {}, {}, NoBlob)
    /\ overflow_checks \in BOOLEAN
    /\ panicked = FALSE
    /\ observed = "pool"
    /\ last = Call("new", NoEntry, None, TRUE, "Ok", None, NoEntry, new)
    /\ candidates = <<>>
    /\ NodeIdle

\* The same, the calls that reach the memory-pool slot observed; the slot is
\* empty or holds bytes that store did not write.
InitStorage ==
    /\ transactions = EmptyMap
    /\ total_size_in_bytes = 0
    /\ storage \in {Ledger({}, {}, {}, NoBlob), Ledger({}, {}, {}, Blob(GarbageBytes))}
    /\ overflow_checks \in BOOLEAN
    /\ panicked = FALSE
    /\ observed = "storage"
    /\ last = Call("new", NoEntry, None, TRUE, "Ok", None, NoEntry, new)
    /\ candidates = <<>>
    /\ NodeIdle

(***************************************************************************)
(* Actions: one per call on the pool, and the ledger's commit.             *)
(***************************************************************************)
Insert ==
    /\ ~panicked
    /\ \E entry \in Entries :
        LET r == insert(pool, storage, entry)
        IN  /\ transactions' = r.pool.transactions
            /\ total_size_in_bytes' = r.pool.total_size_in_bytes
            /\ last' = Observe("pool",
                           Call("insert", entry, None, TRUE, "Ok", r.id, NoEntry, pool))
    /\ UNCHANGED <<storage, overflow_checks, panicked, observed, candidates, sync, inbound_peer>>

Remove ==
    /\ ~panicked
    /\ \E entry \in Entries :
        LET r == remove(pool, entry, overflow_checks)
        IN  /\ Abs(r.pool.total_size_in_bytes - SumSizes(r.pool.transactions)) <= MaxDrift
            /\ transactions' = r.pool.transactions
            /\ total_size_in_bytes' = r.pool.total_size_in_bytes
            /\ panicked' = r.panic
            /\ last' = Observe("pool",
                           Call("remove", entry, None, TRUE, Status(r), r.id, NoEntry, pool))
    /\ UNCHANGED <<storage, overflow_checks, observed, candidates, sync, inbound_peer>>

RemoveByHash ==
    /\ ~panicked
    /\ \E id \in 1..Len(Universe) :
        LET r == remove_by_hash(pool, id, overflow_checks)
        IN  /\ transactions' = r.pool.transactions
            /\ total_size_in_bytes' = r.pool.total_size_in_bytes
            /\ panicked' = r.panic
            /\ last' = Observe("pool",
                           Call("remove_by_hash", NoEntry, id, TRUE, Status(r), None,
                                r.entry, pool))
    /\ UNCHANGED <<storage, overflow_checks, observed, candidates, sync, inbound_peer>>

Cleanse ==
    /\ ~panicked
    /\ \E order \in iteration_orders(transactions) :
        LET p == cleanse(pool, storage, order)
        IN  /\ transactions' = p.transactions
            /\ total_size_in_bytes' = p.total_size_in_bytes
    /\ last' = Observe("pool",
                   Call("cleanse", NoEntry, None, TRUE, "Ok", None, NoEntry, pool))
    /\ UNCHANGED <<storage, overflow_checks, panicked, observed, candidates, sync, inbound_peer>>

\* A block carrying one transaction is committed to the ledger.
Commit ==
    /\ ~panicked
    /\ \E t \in Transactions :
        LET r == insert_and_commit(storage, t)
        IN  /\ storage' = r.storage
            /\ last' = Observe("pool",
                           Call("insert_and_commit", NoEntry, transaction_id(t), TRUE,
                                IF r.ok THEN "Ok" ELSE "Err", None, NoEntry, pool))
    /\ UNCHANGED <<transactions, total_size_in_bytes, overflow_checks, panicked, observed, candidates, sync, inbound_peer>>

Store ==
    /\ ~panicked
    /\ \E order \in iteration_orders(transactions), io_ok \in BOOLEAN :
        LET r == store(pool, storage, order, io_ok)
        IN  /\ storage' = r.storage
            /\ last' = Observe("storage",
                           Call("store", NoEntry, None, io_ok,
                                IF r.ok THEN "Ok" ELSE "Err", None, NoEntry, pool))
    /\ UNCHANGED <<transactions, total_size_in_bytes, overflow_checks, panicked, observed, candidates, sync, inbound_peer>>

\* The node builds its pool from the ledger's slot.
FromStorage ==
    /\ ~panicked
    /\ \E io_ok \in BOOLEAN :
        LET r == from_storage(storage, io_ok)
        IN  /\ transactions' = r.pool.transactions
            /\ total_size_in_bytes' = r.pool.total_size_in_bytes
            /\ last' = Observe("storage",
                           Call("from_storage", NoEntry, None, io_ok,
                                IF r.ok THEN "Ok" ELSE "Err", None, NoEntry, pool))
    /\ UNCHANGED <<storage, overflow_checks, panicked, observed, candidates, sync, inbound_peer>>

Next ==
    \/ Insert
    \/ Remove
    \/ RemoveByHash
    \/ Cleanse
    \/ Commit

Spec == Init /\ [][Next]_vars

NextStorage ==
    \/ Insert
    \/ Remove
    \/ RemoveByHash
    \/ Cleanse
    \/ Commit
    \/ Store
    \/ FromStorage

SpecStorage == InitStorage /\ [][NextStorage]_vars

\* An empty pool on an empty ledger, the get_candidates calls observed.
InitCandidates ==
    /\ transactions = EmptyMap
    /\ total_size_in_bytes = 0
    /\ storage = Ledger({}, {}, {}, NoBlob)
    /\ overflow_checks \in BOOLEAN
    /\ panicked = FALSE
    /\ observed = "candidates"
    /\ last = Call("new", NoEntry, None, TRUE, "Ok", None, NoEntry, new)
    /\ candidates = <<>>
    /\ NodeIdle

\* The miner asks for the candidates of a block of at most max_size bytes;
\* the call is logged with max_size as its key.
GetCandidates ==
    /\ ~panicked
    /\ \E order \in iteration_orders(transactions), max_size \in MaxSizes :
        LET r == get_candidates(pool, storage, max_size, order, overflow_checks)
        IN  /\ candidates' = r.selected
            /\ panicked' = r.panic
            /\ last' = Observe("candidates",
                           Call("get_candidates", NoEntry, max_size, TRUE, Status(r),
                                None, NoEntry, pool))
    /\ UNCHANGED <<transactions, total_size_in_bytes, storage, overflow_checks, observed,
                   sync, inbound_peer>>

\* The pools get_candidates is called on are built by insert alone: it reads
\* the stored entries and the ledger, never total_size_in_bytes.
NextCandidates ==
    \/ Insert
    \/ Commit
    \/ GetCandidates

SpecCandidates == InitCandidates /\ [][NextCandidates]_vars

\* The mempool, untouched by the sync master
mempool_vars ==
    <<transactions, total_size_in_bytes, storage, overflow_checks, panicked, observed,
      last, candidates>>

MempoolIdle ==
    /\ transactions = EmptyMap
    /\ total_size_in_bytes = 0
    /\ storage = Ledger({}, {}, {}, NoBlob)
    /\ overflow_checks = TRUE
    /\ panicked = FALSE
    /\ observed = "sync"
    /\ last = Unobserved
    /\ candidates = <<>>

\* The inputs of order_block_hashes made of the given lists: the answers of
\* no peer, of peer A, and of peers A and B in this order.
OrderInputs(lists) ==
    {<<>>}
        \cup {<<PeerHashes("A", h)>> : h \in lists}
        \cup {<<PeerHashes("A", h), PeerHashes("B", g)>> : h \in lists, g \in lists}

\* order_block_hashes is about to be applied to some input.
InitOrder ==
    /\ MempoolIdle
    /\ inbound_peer = NoInboundPeer
    /\ \E input \in OrderInputs(HashLists) :
           sync = [RunIdle EXCEPT !.pc = "order", !.received_block_hashes = input]

\* let early_blocks = Self::order_block_hashes(&blocks[..]);
OrderBlockHashes ==
    /\ pc = "order"
    /\ sync' = [sync EXCEPT !.block_order = order_block_hashes(received_block_hashes),
                            !.pc = "ordered"]
    /\ UNCHANGED <<mempool_vars, inbound_peer>>

NextOrder == OrderBlockHashes

SpecOrder == InitOrder /\ [][NextOrder]_vars

\* The heights peers advertise, about a node at height our_height
PeerHeights(our_height) ==
    {our_height, our_height + 1, our_height + 2, our_height + 10, our_height + 11}

\* The peers that can stand in a snapshot of a node at height our_height
Peers(our_height) ==
    {Peer(a, h, bad, handle) :
        a \in Addrs, h \in PeerHeights(our_height), bad \in BOOLEAN, handle \in BOOLEAN}

\* The snapshots of the peer book: up to one peer per address, in any order
Snapshots(our_height) ==
    {book \in UNION {[1..n -> Peers(our_height)] : n \in 0..Cardinality(Addrs)} :
        \A i, j \in 1..Len(book) : i # j => book[i].address # book[j].address}

\* A run about to start on the given peer book, the node at height 1
RunStart(book) ==
    [RunIdle EXCEPT !.pc = "send_sync_messages", !.our_block_height = 1, !.peer_book = book]

\* A run is about to start on some peer book.
InitSelect ==
    /\ MempoolIdle
    /\ inbound_peer = NoInboundPeer
    /\ \E book \in Snapshots(1) : sync = RunStart(book)

\* let hash_requests_sent = self.send_sync_messages().await;
\* if hash_requests_sent == 0 { return Ok(()); }
\* and, if something was sent, the entry into receive_sync_hashes.  The read
\* of the block locator succeeds or fails.
SendSyncMessages ==
    /\ pc = "send_sync_messages"
    /\ \E locator_ok \in BOOLEAN :
        LET nodes == find_sync_nodes(peer_book, our_block_height)
            sent  == get_sync_messages(nodes, block_locator_hashes(locator_ok))
            sends == [i \in 1..Len(sent) |-> NodeCall("send_payload", sent[i].to, sent[i], TRUE)]
        IN  sync' = IF Len(sent) = 0
                    THEN [sync EXCEPT !.sync_nodes = nodes,
                                      !.pc = "done",
                                      !.result = "Ok"]
                    ELSE [sync EXCEPT !.sync_nodes = nodes,
                                      !.calls = calls \o sends,
                                      !.outbound = outbound \o sent,
                                      !.pc = "receive_sync_hashes",
                                      !.end = now + HASHES_TIMEOUT,
                                      !.moving_end = now + HASHES_TIMEOUT]
    /\ UNCHANGED <<mempool_vars, inbound_peer>>

NextSelect == SendSyncMessages

SpecSelect == InitSelect /\ [][NextSelect]_vars

\* The peer books of the runs that are followed to their end: no peer, a
\* peer at our height, a higher peer without a handle, a higher peer with
\* one, two higher peers with handles, and a higher peer next to a
\* connected peer that is judged bad.
SyncBooks ==
    {<<>>,
     <<Peer("A", 1, FALSE, TRUE)>>,
     <<Peer("A", 12, FALSE, FALSE)>>,
     <<Peer("A", 12, FALSE, TRUE)>>,
     <<Peer("A", 12, FALSE, TRUE), Peer("B", 12, FALSE, TRUE)>>,
     <<Peer("A", 12, FALSE, TRUE), Peer("B", 12, TRUE, TRUE)>>}

\* The events the inbound router forwards to the sync channel
SyncHashLists == {<<1>>, <<1, 2>>, <<2, 3>>, <<3>>}
HashesEvents == {BlockHashesEvent(a, h) : a \in {"A", "B"}, h \in SyncHashLists}
BlockEvents ==
    {BlockEvent("A", <<>>), BlockEvent("A", <<3>>), BlockEvent("B", <<3>>),
     BlockEvent("A", <<2>>), BlockEvent("B", <<2, 9>>)}
SyncEvents == HashesEvents \cup BlockEvents

\* The events offered to receive_sync_blocks, whose handler matches
\* SyncInbound::BlockHashes(_, _) without looking into it: one such event
\* stands for all of them.
SyncBlocksEvents == BlockEvents \cup {BlockHashesEvent("B", <<3>>)}

\* A run is about to start.
InitSync ==
    /\ MempoolIdle
    /\ inbound_peer = NoInboundPeer
    /\ \E book \in SyncBooks : sync = RunStart(book)

Awaiting == pc \in {"receive_sync_hashes", "receive_sync_blocks"}

\* The instant the sleep of receive_messages ends at
wake == IF end < moving_end THEN end ELSE moving_end

\* Time passes: up to the instant the sleep ends at, and then once more
\* beyond the overall deadline while the run has not been polled.
Tick ==
    /\ Awaiting
    /\ now <= end
    /\ sync' = [sync EXCEPT !.now = IF now < wake THEN wake ELSE end + 1]
    /\ UNCHANGED <<mempool_vars, inbound_peer>>

\* Every sender of the sync channel is dropped while the run awaits events.
CloseChannel ==
    /\ Awaiting
    /\ ~closed
    /\ sync' = [sync EXCEPT !.closed = TRUE]
    /\ UNCHANGED <<mempool_vars, inbound_peer>>

\* Where the run goes on when receive_messages returns
after_receive == IF pc = "receive_sync_hashes" THEN "hashes_received" ELSE "blocks_received"

\* receive_messages returns from the run s: its clock and its deadlines are
\* gone.
Return(s) ==
    [s EXCEPT !.pc = after_receive, !.now = 0, !.end = 0, !.moving_end = 0]

\* select!: the timeout branch is taken.
Timeout ==
    /\ Awaiting
    /\ now >= wake
    /\ sync' = Return(sync)
    /\ UNCHANGED <<mempool_vars, inbound_peer>>

\* select!: the recv branch is taken and yields None.
RecvNone ==
    /\ Awaiting
    /\ closed
    /\ sync' = Return(sync)
    /\ UNCHANGED <<mempool_vars, inbound_peer>>

\* select!: the recv branch is taken in receive_sync_hashes and yields an
\* event.
RecvSyncHashes ==
    /\ pc = "receive_sync_hashes"
    /\ ~closed
    /\ \E msg \in SyncEvents :
        LET handled ==
                [sync EXCEPT
                    !.received_block_hashes =
                        IF msg.kind = "BlockHashes"
                        THEN map_put(received_block_hashes, msg.addr, msg.hashes)
                        ELSE received_block_hashes,
                    !.premature =
                        IF msg.kind = "Block" /\ ~too_short(msg.block)
                        THEN premature \cup {header_hash(msg.block)}
                        ELSE premature,
                    !.event = msg,
                    !.replaced = (replaced \/ (msg.kind = "BlockHashes"
                                                  /\ msg.addr \in DOMAIN received_block_hashes)),
                    !.late = (late \/ now > end)]
        IN  sync' = IF Cardinality(DOMAIN handled.received_block_hashes)
                           >= hash_requests_sent(outbound)
                    THEN Return(handled)
                    ELSE [handled EXCEPT !.moving_end = now + HASHES_TIMEOUT]
    /\ UNCHANGED <<mempool_vars, inbound_peer>>

\* select!: the recv branch is taken in receive_sync_blocks and yields an
\* event.
RecvSyncBlocks ==
    /\ pc = "receive_sync_blocks"
    /\ ~closed
    /\ \E msg \in SyncBlocksEvents :
        LET handled ==
                [sync EXCEPT
                    !.received_blocks =
                        IF msg.kind = "Block"
                        THEN Append(received_blocks, SyncBlock(msg.addr, msg.block))
                        ELSE received_blocks,
                    !.event = msg,
                    !.late = (late \/ now > end)]
        IN  sync' = IF Len(handled.received_blocks) >= sent_block_requests(outbound)
                    THEN Return(handled)
                    ELSE [handled EXCEPT !.moving_end = now + BLOCKS_MOVING_TIMEOUT]
    /\ UNCHANGED <<mempool_vars, inbound_peer>>

\* run returns Ok before anything was asked for.
ReturnEarly ==
    sync' = [sync EXCEPT !.pc = "done", !.result = "Ok", !.event = NoEvent, !.replaced = FALSE]

\* run from the return of receive_sync_hashes to the entry into
\* receive_sync_blocks: the plan is built, the blocks are assigned to peers
\* and asked for.  The answers are iterated in some order, a peer is drawn
\* for each hash, and the requests are iterated in some order.
PlanBlocks ==
    /\ pc = "hashes_received"
    /\ IF received_block_hashes = <<>>
       THEN ReturnEarly
       ELSE \E hash_order \in key_orders(DOMAIN received_block_hashes) :
           LET blocks == [i \in 1..Len(hash_order) |->
                             PeerHashes(hash_order[i], received_block_hashes[hash_order[i]])]
               early_blocks == order_block_hashes(blocks)
               plan == unknown_blocks(early_blocks)
               peer_map == block_peer_map(blocks)
           IN  IF plan = <<>>
               THEN ReturnEarly
               ELSE \E drawn \in peer_choices(plan, peer_map) :
                   LET requests == get_peer_blocks(plan, drawn)
                   IN  \E order \in key_orders(DOMAIN requests) :
                       \E poll \in join_all(Len(requested_peers(peer_book, order))) :
                       LET requested == request_blocks_calls(peer_book, requests, order, poll)
                       IN
                       sync' = [sync EXCEPT
                                   !.block_order = plan,
                                   !.peer_addresses = order,
                                   !.block_peers = drawn,
                                   !.peer_block_requests = requests,
                                   !.calls = calls \o requested,
                                   !.outbound = outbound \o sent_payloads(requested),
                                   !.pc = "receive_sync_blocks",
                                   !.event = NoEvent,
                                   !.replaced = FALSE,
                                   !.now = 0,
                                   !.end = BLOCKS_TIMEOUT,
                                   !.moving_end = BLOCKS_MOVING_TIMEOUT]
    /\ UNCHANGED <<mempool_vars, inbound_peer>>

\* run from the return of receive_sync_blocks to the ingestion loop: the
\* outstanding syncs are cancelled and the received blocks are indexed by
\* the hash of their header, which panics on a block shorter than a header.
IndexBlocks ==
    /\ pc = "blocks_received"
    /\ LET cancelled ==
               [sync EXCEPT !.calls = calls \o cancel_outstanding_syncs(peer_book,
                                                   peer_addresses),
                            !.event = NoEvent]
       IN  sync' = IF \E i \in 1..Len(received_blocks) : too_short(received_blocks[i].block)
                   THEN [cancelled EXCEPT !.pc = "done", !.result = "Panic"]
                   ELSE [cancelled EXCEPT !.pc = "ingest",
                                          !.blocks_by_hash = index_blocks(received_blocks)]
    /\ UNCHANGED <<mempool_vars, inbound_peer>>

\* One turn of the ingestion loop: the block of the next hash of the plan,
\* if one was received, is handed to process_received_block, whose error
\* ends the run.
ProcessBlock ==
    /\ pc = "ingest"
    /\ next_block <= Len(block_order)
    /\ LET hash == block_order[next_block]
       IN  IF hash \in DOMAIN blocks_by_hash
           THEN \E ok \in BOOLEAN :
                   LET called ==
                           [sync EXCEPT
                               !.calls = Append(calls,
                                             NodeCall("process_received_block",
                                                      blocks_by_hash[hash].address,
                                                      blocks_by_hash[hash].block, ok)),
                               !.blocks_by_hash =
                                   [h \in DOMAIN blocks_by_hash \ {hash} |->
                                       blocks_by_hash[h]],
                               !.result = propagate(ok)]
                   IN  sync' = IF called.result = "running"
                               THEN [called EXCEPT !.next_block = next_block + 1]
                               ELSE [called EXCEPT !.pc = "done"]
           ELSE sync' = [sync EXCEPT !.next_block = next_block + 1]
    /\ UNCHANGED <<mempool_vars, inbound_peer>>

\* self.node.finished_syncing_blocks(); Ok(())
FinishSync ==
    /\ pc = "ingest"
    /\ next_block > Len(block_order)
    /\ sync' = [sync EXCEPT
                   !.calls = Append(calls, NodeCall("finished_syncing_blocks", "", 0, TRUE)),
                   !.pc = "done",
                   !.result = "Ok"]
    /\ UNCHANGED <<mempool_vars, inbound_peer>>

NextSync ==
    \/ SendSyncMessages
    \/ Tick
    \/ CloseChannel
    \/ Timeout
    \/ RecvNone
    \/ RecvSyncHashes
    \/ RecvSyncBlocks
    \/ PlanBlocks
    \/ IndexBlocks
    \/ ProcessBlock
    \/ FinishSync

SpecSync == InitSync /\ [][NextSync]_vars

\* The peers a connection can begin with: a pong is awaited or not, a ping
\* was sent before or not, a round-trip time is stored or not.
InboundPeers ==
    {PeerConnected(expecting, sent, rtt) :
        expecting \in BOOLEAN, sent \in {"None", "Some"}, rtt \in {0, 250}}

InitInbound ==
    /\ MempoolIdle
    /\ sync = RunIdle
    /\ inbound_peer \in InboundPeers

\* The connection delivers a payload, or fails to, and the handler is run
\* on it.
DispatchPayload ==
    /\ inbound_peer.num_messages_received < MaxMessages
    /\ \E payload \in InboundPayloads, elapsed \in ElapsedMillis, write_ok \in BOOLEAN :
           inbound_peer' = inner_dispatch_payload(inbound_peer, payload, elapsed, write_ok)
    /\ UNCHANGED <<mempool_vars, sync>>

NextInbound == DispatchPayload

SpecInbound == InitInbound /\ [][NextInbound]_vars

(***************************************************************************)
(* Vocabulary of the properties.                                           *)
(***************************************************************************)
SerialNumbers(t) == Range(t.old_serial_numbers)
Commitments(t) == Range(t.new_commitments)

\* Nothing that t carries is contained in the committed ledger st
NotInLedger(t, st) ==
    /\ SerialNumbers(t) \cap st.serial_numbers = {}
    /\ Commitments(t) \cap st.commitments = {}
    /\ t.memorandum \notin st.memos

\* No stored transaction of map carries anything the ledger st contains
PoolOffLedger(map, st) == \A k \in DOMAIN map : NotInLedger(map[k].transaction, st)

\* t shares nothing with the transactions stored in map
SharesNothing(t, map) ==
    \A k \in DOMAIN map :
        /\ SerialNumbers(t) \cap SerialNumbers(map[k].transaction) = {}
        /\ Commitments(t) \cap Commitments(map[k].transaction) = {}
        /\ t.memorandum # map[k].transaction.memorandum

Restrict(map, keys) == [k \in keys |-> map[k]]

\* The stored entries of map that do not conflict with the ledger st
Surviving(map, st) == {k \in DOMAIN map : NotInLedger(map[k].transaction, st)}

(***************************************************************************)
(* C1: total_size_in_bytes equals the sum of size_in_bytes over the stored *)
(* entries in every state reachable by insert, remove, remove_by_hash and  *)
(* cleanse, whatever entries the calls are given.                          *)
(***************************************************************************)
C1_TotalIsSumOfSizes == total_size_in_bytes = SumSizes(transactions)

(***************************************************************************)
(* C2: in every reachable state no serial number occurs twice across the   *)
(* pool (within one stored transaction or in two of them), no commitment   *)
(* occurs twice, and no two stored transactions have the same memorandum.  *)
(***************************************************************************)
C2_PoolIsDuplicateFree ==
    /\ \A k \in DOMAIN transactions :
        /\ Cardinality(SerialNumbers(transactions[k].transaction))
               = Len(transactions[k].transaction.old_serial_numbers)
        /\ Cardinality(Commitments(transactions[k].transaction))
               = Len(transactions[k].transaction.new_commitments)
    /\ \A k \in DOMAIN transactions :
        SharesNothing(transactions[k].transaction, map_remove(transactions, k))

\* Two transactions are stored and an insert has just been turned down for a
\* commitment that a stored transaction carries, with which it shares nothing
\* else.
C2_Witness ==
    /\ Cardinality(DOMAIN transactions) = 2
    /\ last.op = "insert"
    /\ last.id = None
    /\ ~contains(pool, last.entry)
    /\ NotInLedger(last.entry.transaction, storage)
    /\ \E k \in DOMAIN transactions :
        /\ Commitments(last.entry.transaction) \cap Commitments(transactions[k].transaction) # {}
        /\ SerialNumbers(last.entry.transaction)
               \cap SerialNumbers(transactions[k].transaction) = {}
        /\ last.entry.transaction.memorandum # transactions[k].transaction.memorandum

(***************************************************************************)
(* C3: in every reachable state of pool and ledger, commits interleaving   *)
(* with the pool's calls, no serial number, commitment or memorandum of a  *)
(* stored transaction is contained in the committed ledger.                *)
(***************************************************************************)
C3_PoolNeverOnLedger == PoolOffLedger(transactions, storage)

\* C3 as amended: only a commit makes a stored transaction conflict with the
\* ledger.  insert admits nothing the ledger contains; insert, remove and
\* remove_by_hash on a pool that was off the ledger leave it off the ledger;
\* after cleanse the pool is off the ledger.
C3_OnlyCommitsBreakIt ==
    /\ (last.op = "insert" /\ last.id # None)
           => NotInLedger(last.entry.transaction, storage)
    /\ (/\ last.op \in {"insert", "remove", "remove_by_hash"}
        /\ PoolOffLedger(last.before.transactions, storage))
           => PoolOffLedger(transactions, storage)
    /\ last.op = "cleanse" => PoolOffLedger(transactions, storage)

\* A cleanse has dropped a transaction that a commit had put on the ledger and
\* kept another one.
C3_Witness ==
    /\ last.op = "cleanse"
    /\ ~PoolOffLedger(last.before.transactions, storage)
    /\ transactions # EmptyMap

(***************************************************************************)
(* C4: insert admits the entry (stores it under its transaction id, adds   *)
(* its size_in_bytes to total_size_in_bytes, returns Some(id)) if and only *)
(* if its serial numbers have no duplicates, its commitments have no       *)
(* duplicates, its id is not a key of the pool, it shares no serial        *)
(* number, commitment or memorandum with a stored transaction, and the     *)
(* ledger contains none of them; in every other case it returns None.      *)
(***************************************************************************)
C4_Admissible(map, st, t) ==
    /\ Cardinality(SerialNumbers(t)) = Len(t.old_serial_numbers)
    /\ Cardinality(Commitments(t)) = Len(t.new_commitments)
    /\ transaction_id(t) \notin DOMAIN map
    /\ SharesNothing(t, map)
    /\ NotInLedger(t, st)

C5_RejectedInsertChangesNothing ==
    (last.op = "insert" /\ last.id = None) => pool = last.before

\* A stored transaction has been inserted again, with another size than the
\* stored one.
C5_Witness ==
    /\ last.op = "insert"
    /\ last.id = None
    /\ contains(last.before, last.entry)
    /\ last.before.transactions[transaction_id(last.entry.transaction)].size_in_bytes
           # last.entry.size_in_bytes

(***************************************************************************)
(* C6: remove(entry): when an entry with the same transaction id is        *)
(* stored, it leaves the map, total_size_in_bytes drops by the             *)
(* size_in_bytes of the stored entry (not of the argument) and the id is   *)
(* returned; when none is stored, None is returned and nothing changes.    *)
(***************************************************************************)
C6_RemoveSubtractsStoredSize ==
    last.op = "remove" =>
        LET id  == transaction_id(last.entry.transaction)
            was == last.before
        IN  IF id \in DOMAIN was.transactions
            THEN /\ last.status = "Ok"
                 /\ last.id = id
                 /\ transactions = map_remove(was.transactions, id)
                 /\ total_size_in_bytes
                        = was.total_size_in_bytes - was.transactions[id].size_in_bytes
            ELSE /\ last.status = "Ok"
                 /\ last.id = None
                 /\ pool = was

(***************************************************************************)
(* C7: insert followed by removal is a round trip.  When the call after an *)
(* insert that admitted entry e under id i is remove(e) or                 *)
(* remove_by_hash(i), the pool is again the pool the insert was made on;   *)
(* remove_by_hash(i) returns e; remove_by_hash of an id that is not stored *)
(* returns None and changes nothing.                                       *)
(***************************************************************************)
C7_InsertThenRemoveStep ==
    /\ (/\ last.op = "insert"
        /\ last.id # None
        /\ last'.op = "remove"
        /\ last'.entry = last.entry)
           => /\ last'.status = "Ok"
              /\ last'.id = last.id
              /\ pool' = last.before
    /\ (/\ last.op = "insert"
        /\ last.id # None
        /\ last'.op = "remove_by_hash"
        /\ last'.key = last.id)
           => /\ last'.status = "Ok"
              /\ last'.removed = last.entry
              /\ pool' = last.before
    /\ (/\ last'.op = "remove_by_hash"
        /\ last'.key \notin DOMAIN transactions)
           => /\ last'.status = "Ok"
              /\ last'.removed = NoEntry
              /\ pool' = pool

C7_InsertThenRemoveIsRoundTrip == [][C7_InsertThenRemoveStep]_vars

\* remove_by_hash has taken an entry out of a pool that keeps another one,
\* and total_size_in_bytes is what it was before that entry came in.
C7_Witness ==
    /\ last.op = "remove_by_hash"
    /\ last.removed # NoEntry
    /\ transactions # EmptyMap
    /\ total_size_in_bytes
           = last.before.total_size_in_bytes - last.removed.size_in_bytes

(***************************************************************************)
(* C8: for every reachable pool P, entries admitted with any size and the  *)
(* ledger possibly advanced since, store followed by from_storage on the   *)
(* unchanged ledger yields a pool with the transaction ids of P and the    *)
(* total_size_in_bytes of P.                                               *)
(***************************************************************************)
C8_StoreThenFromStorage ==
    /\ last.op = "store"
    /\ last.status = "Ok"
    /\ last'.op = "from_storage"
    /\ last'.io
    /\ last'.status = "Ok"

C8_RestoreGivesSamePool ==
    [][C8_StoreThenFromStorage =>
          /\ DOMAIN transactions' = DOMAIN transactions
          /\ total_size_in_bytes' = total_size_in_bytes]_vars

\* C8 as amended: the restored pool holds exactly the transactions of P that
\* do not conflict with the ledger, each with the length of its serialization
\* as size_in_bytes, and total_size_in_bytes is the sum of these lengths.
C8_RestoreGivesSurvivorsAtSerializedSize ==
    [][C8_StoreThenFromStorage =>
          /\ DOMAIN transactions' = Surviving(transactions, storage)
          /\ \A k \in DOMAIN transactions' :
                 transactions'[k] = Entry(tx_size(transactions[k].transaction),
                                          transactions[k].transaction)
          /\ total_size_in_bytes' = SumSizes(transactions')]_vars

\* A pool has been restored that lacks a transaction of the pool it replaces
\* and counts another size for one it keeps.
C8_Witness ==
    /\ last.op = "from_storage"
    /\ last.io
    /\ transactions # EmptyMap
    /\ DOMAIN transactions # DOMAIN last.before.transactions
    /\ \E k \in DOMAIN transactions :
        /\ k \in DOMAIN last.before.transactions
        /\ transactions[k] # last.before.transactions[k]

(***************************************************************************)
(* C9: from_storage returns an Error when the ledger's read of the         *)
(* memory-pool slot fails; it returns Ok with an empty pool only when the  *)
(* slot holds no blob or the blob cannot be decoded.                       *)
(***************************************************************************)
C9_ReadErrorIsReturned ==
    last.op = "from_storage" =>
        /\ ~last.io => last.status = "Err"
        /\ (last.status = "Ok" /\ pool = new)
               => \/ ~storage.memory_pool.present
                  \/ ~DPCTransactions_read(storage.memory_pool.bytes).ok

(***************************************************************************)
(* C10: after cleanse the pool holds precisely the entries it held before  *)
(* none of whose serial numbers, commitments or memorandum the ledger      *)
(* contains, each with its stored size, and total_size_in_bytes is their   *)
(* sum.                                                                    *)
(***************************************************************************)
C10_CleanseKeepsExactlyTheSurvivors ==
    last.op = "cleanse" =>
        /\ last.status = "Ok"
        /\ transactions = Restrict(last.before.transactions,
                                   Surviving(last.before.transactions, storage))
        /\ total_size_in_bytes = SumSizes(transactions)

\* A cleanse of a pool whose total was off has dropped one entry and kept
\* another.
C10_Witness ==
    /\ last.op = "cleanse"
    /\ transactions # EmptyMap
    /\ DOMAIN transactions # DOMAIN last.before.transactions
    /\ last.before.total_size_in_bytes # SumSizes(last.before.transactions)

(***************************************************************************)
(* C11: for every pool, ledger and max_size, also below BLOCK_HEADER_SIZE  *)
(* + COINBASE_TRANSACTION_SIZE, get_candidates returns without failure a   *)
(* list whose sizes sum to at most max_size - BLOCK_HEADER_SIZE -          *)
(* COINBASE_TRANSACTION_SIZE, and the list is empty when that budget is    *)
(* not positive.                                                           *)
(***************************************************************************)
SumCandidateSizes ==
    LET sizes == [i \in 1..Len(candidates) |-> candidates[i].size_in_bytes]
        sum[n \in 0..Len(sizes)] == IF n = 0 THEN 0 ELSE sum[n - 1] + sizes[n]
    IN  sum[Len(sizes)]

C11_CandidatesFitTheBudget ==
    last.op = "get_candidates" =>
        LET budget == last.key - BLOCK_HEADER_SIZE - COINBASE_TRANSACTION_SIZE
        IN  /\ last.status = "Ok"
            /\ SumCandidateSizes <= budget
            /\ budget <= 0 => candidates = <<>>

(***************************************************************************)
(* C12: the transactions of a list returned by get_candidates share no     *)
(* serial number, commitment or memorandum with one another, and           *)
(* transaction_conflicts of the ledger is false for each of them.          *)
(***************************************************************************)
C12_CandidatesDoNotConflict ==
    (last.op = "get_candidates" /\ last.status = "Ok") =>
        /\ \A i, j \in 1..Len(candidates) :
               i # j =>
                   LET a == candidates[i].transaction
                       b == candidates[j].transaction
                   IN  /\ SerialNumbers(a) \cap SerialNumbers(b) = {}
                       /\ Commitments(a) \cap Commitments(b) = {}
                       /\ a.memorandum # b.memorandum
        /\ \A i \in 1..Len(candidates) :
               ~transaction_conflicts(storage, candidates[i].transaction)

\* A call has selected one entry of the pool and passed over another that
\* fits the budget but conflicts with the ledger.
C12_Witness ==
    /\ last.op = "get_candidates"
    /\ last.status = "Ok"
    /\ candidates # <<>>
    /\ \E k \in DOMAIN transactions :
        /\ transaction_conflicts(storage, transactions[k].transaction)
        /\ SumCandidateSizes + transactions[k].size_in_bytes
               <= last.key - BLOCK_HEADER_SIZE - COINBASE_TRANSACTION_SIZE

(***************************************************************************)
(* Vocabulary of the planning claims.                                      *)
(***************************************************************************)
\* The cells <<index, peer>> of the input R, and the column-major order on
\* them: by index first, by the peer's place in R second.
Cells(R) == {c \in (1..MaxHashes + 1) \X (1..Len(R)) : c[1] <= Len(R[c[2]].hashes)}
CellHash(R, c) == R[c[2]].hashes[c[1]]
ColumnMajorBefore(c, d) == c[1] < d[1] \/ (c[1] = d[1] /\ c[2] < d[2])
HashesOf(R) == {CellHash(R, c) : c \in Cells(R)}

\* The first cell, in column-major order, that holds hash h
FirstCell(R, h) ==
    CHOOSE c \in Cells(R) :
        /\ CellHash(R, c) = h
        /\ \A d \in Cells(R) : CellHash(R, d) = h => (d = c \/ ColumnMajorBefore(c, d))

\* The places at which hash h stands in the list out
Places(out, h) == {k \in 1..Len(out) : out[k] = h}

\* h stands in out, once, and g stands somewhere after it
Precedes(out, h, g) ==
    \E k \in Places(out, h) : \E l \in Places(out, g) : k < l

(***************************************************************************)
(* C15: order_block_hashes(R) is the column-major flattening of R with     *)
(* first-occurrence de-duplication: every hash of R stands in the output   *)
(* exactly once, at the place its first cell has among the first cells of  *)
(* all hashes; [(A,[h1,h2,h3]),(B,[h1,h4])] gives [h1,h2,h4,h3].           *)
(***************************************************************************)
C15_ColumnMajorFirstOccurrence ==
    pc = "ordered" =>
        LET R == received_block_hashes
        IN  /\ Len(block_order) = Cardinality(HashesOf(R))
            /\ \A h \in HashesOf(R) :
                   Places(block_order, h) =
                       {1 + Cardinality({g \in HashesOf(R) :
                                ColumnMajorBefore(FirstCell(R, g), FirstCell(R, h))})}
            /\ R = <<PeerHashes("A", <<1, 2, 3>>), PeerHashes("B", <<1, 4>>)>>
                   => block_order = <<1, 2, 4, 3>>

\* The example of the claim has been ordered.
C15_Witness ==
    /\ pc = "ordered"
    /\ received_block_hashes = <<PeerHashes("A", <<1, 2, 3>>), PeerHashes("B", <<1, 4>>)>>
    /\ block_order = <<1, 2, 4, 3>>

(***************************************************************************)
(* C16: the output of order_block_hashes(R) preserves each peer's          *)
(* relative order: if hash a stands before hash b in the list of a peer    *)
(* of R, then a stands before b in the output.                             *)
(***************************************************************************)
C16_PeerOrderPreserved ==
    pc = "ordered" =>
        \A p \in 1..Len(received_block_hashes) :
            LET hashes == received_block_hashes[p].hashes
            IN  \A i, j \in 1..Len(hashes) :
                    (i < j /\ hashes[i] # hashes[j])
                        => /\ Precedes(block_order, hashes[i], hashes[j])
                           /\ ~Precedes(block_order, hashes[j], hashes[i])

(***************************************************************************)
(* C20: every peer that is sent GetSync has, in the peer-book snapshot,    *)
(* judge_bad = false and a height above our_height + 1, and the peers      *)
(* find_sync_nodes retains are ordered by descending advertised height.    *)
(***************************************************************************)
C20_GetSyncGoesToGoodTallPeers ==
    /\ \A m \in 1..Len(outbound) :
           outbound[m].payload = "GetSync" =>
               \E i \in 1..Len(peer_book) :
                   /\ peer_book[i].address = outbound[m].to
                   /\ peer_book[i].judge_bad = FALSE
                   /\ peer_book[i].block_height > our_block_height + 1
    /\ \A i, j \in 1..Len(sync_nodes) :
           i < j => sync_nodes[i].block_height >= sync_nodes[j].block_height

\* GetSync went to two peers of different heights, the higher one first in
\* the retained list though second in the snapshot, while a peer judged bad
\* that is higher than both was left out.
C20_Witness ==
    /\ Len(peer_book) = 3
    /\ Len(sync_nodes) = 2
    /\ sync_nodes[1].block_height > sync_nodes[2].block_height
    /\ \E i, j, k \in 1..3 :
        /\ i < j
        /\ peer_book[i] = sync_nodes[2]
        /\ peer_book[j] = sync_nodes[1]
        /\ peer_book[k].judge_bad
        /\ peer_book[k].block_height > our_block_height + 10
    /\ {outbound[m].to : m \in 1..Len(outbound)} =
           {sync_nodes[1].address, sync_nodes[2].address}

(***************************************************************************)
(* Vocabulary of the claims about a run.                                   *)
(***************************************************************************)
\* The messages with the given payload that have been handed to handles
Sent(payload) == SelectSeq(outbound, LAMBDA m : m.payload = payload)

\* The calls of the given operation that have been made
Called(op) == SelectSeq(calls, LAMBDA c : c.op = op)

\* The hashes the peers have answered with
ReceivedHashes ==
    UNION {Range(received_block_hashes[a]) : a \in DOMAIN received_block_hashes}

\* The run is past the building of the plan
PlanBuilt == pc \in {"receive_sync_blocks", "blocks_received", "ingest", "done"}

(***************************************************************************)
(* C14: every hash a GetBlocks request is sent for, and every hash of the  *)
(* plan used for ingestion, is one for which block_hash_exists was false   *)
(* when the plan was built.                                                *)
(***************************************************************************)
C14_PlanHoldsUnknownHashesOnly ==
    /\ \A m \in 1..Len(outbound) :
           outbound[m].payload = "GetBlocks" =>
               \A i \in 1..Len(outbound[m].hashes) : outbound[m].hashes[i] \notin LedgerHashes
    /\ \A i \in 1..Len(block_order) : block_order[i] \notin LedgerHashes

\* Blocks have been asked for after the peers answered with a hash the
\* ledger holds next to hashes it does not hold.
C14_Witness ==
    /\ Sent("GetBlocks") # <<>>
    /\ block_order # <<>>
    /\ ReceivedHashes \cap LedgerHashes # {}

(***************************************************************************)
(* C17: a run whose intermediate result is empty returns Ok with no        *)
(* further effects: no GetSync is sent when no peer qualifies, and when no *)
(* GetSync was sent, no BlockHashes was received before the deadline, or   *)
(* every received hash is known to the ledger, run returns Ok without      *)
(* calling expecting_sync_blocks, sending GetBlocks or calling             *)
(* process_received_block.                                                 *)
(***************************************************************************)
NoPeerQualifies ==
    \A i \in 1..Len(peer_book) :
        peer_book[i].judge_bad \/ peer_book[i].block_height <= our_block_height + 1

EmptyIntermediateResult ==
    \/ Sent("GetSync") = <<>>
    \/ DOMAIN received_block_hashes = {}
    \/ ReceivedHashes \subseteq LedgerHashes

C17_EmptyResultEndsTheRun ==
    /\ NoPeerQualifies => Sent("GetSync") = <<>>
    /\ (pc \notin {"send_sync_messages", "receive_sync_hashes", "hashes_received"}
            /\ EmptyIntermediateResult)
           => /\ pc = "done"
              /\ result = "Ok"
              /\ Called("expecting_sync_blocks") = <<>>
              /\ Sent("GetBlocks") = <<>>
              /\ Called("process_received_block") = <<>>

\* A run has returned after peers answered with nothing but hashes the
\* ledger holds.
C17_Witness ==
    /\ pc = "done"
    /\ DOMAIN received_block_hashes # {}
    /\ ReceivedHashes # {}
    /\ ReceivedHashes \subseteq LedgerHashes

(***************************************************************************)
(* C13: during ingestion the process_received_block calls are exactly the  *)
(* hashes of the plan for which a block was received in AwaitBlocks, in    *)
(* plan order and once each: a missing block does not prevent the calls    *)
(* for later hashes, and a block whose header hash is not in the plan, or  *)
(* that arrived before AwaitBlocks, is never processed.                    *)
(***************************************************************************)
\* The received blocks that are long enough to have a header
WithHeader == SelectSeq(received_blocks, LAMBDA b : Len(b.block) >= BLOCK_HEADER_SIZE)

\* The hashes of the plan for which a block was received, in plan order
ReceivedOfPlan ==
    SelectSeq(block_order,
              LAMBDA h : \E i \in 1..Len(WithHeader) : header_hash(WithHeader[i].block) = h)

\* The header hashes of the blocks handed to process_received_block
ProcessedHashes ==
    [i \in 1..Len(Called("process_received_block")) |->
        header_hash(Called("process_received_block")[i].arg)]

IsPrefix(s, t) == Len(s) <= Len(t) /\ s = SubSeq(t, 1, Len(s))

C13_EveryReceivedBlockOfThePlanIsProcessed ==
    (pc = "done" /\ result \in {"Ok", "Err"}) => ProcessedHashes = ReceivedOfPlan

\* C13 as amended: the calls are made in plan order for hashes of the plan
\* for which a block was received in AwaitBlocks, each with the address and
\* the bytes of the last such block that was received; a missing block does
\* not prevent later calls; and the calls are all of these hashes when run
\* returns Ok, while a call that returns an error is the last one and no
\* call is made when the run panics on a block shorter than a header.
C13_CallsArePrefixOfReceivedPlan ==
    /\ IsPrefix(ProcessedHashes, ReceivedOfPlan)
    /\ \A i \in 1..Len(Called("process_received_block")) :
           LET call == Called("process_received_block")[i]
               same == {k \in 1..Len(received_blocks) :
                           /\ Len(received_blocks[k].block) >= BLOCK_HEADER_SIZE
                           /\ header_hash(received_blocks[k].block) = header_hash(call.arg)}
           IN  /\ \E k \in same :
                      /\ received_blocks[k] = SyncBlock(call.addr, call.arg)
                      /\ \A l \in same : l <= k
               /\ (~call.ok) => i = Len(Called("process_received_block"))
    /\ (pc = "done" /\ result = "Ok") => ProcessedHashes = ReceivedOfPlan
    /\ result = "Panic" => ProcessedHashes = <<>>

\* A run has returned Ok after it skipped the first hash of its plan, whose
\* block had come before AwaitBlocks only, and processed the second with the
\* later of two blocks received for it.
C13_Witness ==
    /\ pc = "done"
    /\ result = "Ok"
    /\ Len(block_order) = 2
    /\ block_order[1] \in premature
    /\ ProcessedHashes = <<block_order[2]>>
    /\ Len(received_blocks) = 2
    /\ received_blocks[1] # received_blocks[2]
    /\ Called("process_received_block")[1].arg = received_blocks[2].block

(***************************************************************************)
(* C18: run returns an error if and only if a process_received_block call  *)
(* of the ingestion returns an error; missing peer handles, an unreadable  *)
(* block locator, deadlines expiring and missing blocks leave the result   *)
(* Ok.                                                                     *)
(***************************************************************************)
SomeCallFailed == \E i \in 1..Len(calls) : ~calls[i].ok

C18_ErrorIffIngestionFails ==
    /\ result = "Err" <=> SomeCallFailed
    /\ (pc = "done" /\ ~SomeCallFailed /\ WithHeader = received_blocks) => result = "Ok"

\* A run has returned the error of its second call, made after a first call
\* that succeeded, although the block locator could not be read.
C18_Witness ==
    /\ pc = "done"
    /\ result = "Err"
    /\ Len(Called("process_received_block")) = 2
    /\ \A i \in 1..Len(Sent("GetSync")) : Sent("GetSync")[i].hashes = <<>>

(***************************************************************************)
(* C19: every await phase is bounded by its overall deadline: no event is  *)
(* consumed by receive_messages after the overall deadline, however often  *)
(* events arrive and reset the moving deadline.                            *)
(***************************************************************************)
C19_NoEventAfterOverallDeadline == ~late

(***************************************************************************)
(* C21: the list of qualifying peers is cut only if some qualifying peer   *)
(* is more than 10 blocks ahead; then the retained peers are the           *)
(* qualifying peers above our_height + 10 and the single highest           *)
(* qualifying peer at or below our_height + 10, if there is one; when no   *)
(* qualifying peer is more than 10 blocks ahead, every qualifying peer is  *)
(* retained.                                                               *)
(***************************************************************************)
Qualifying == {peer_book[i] : i \in {j \in 1..Len(peer_book) :
                                        is_interesting(peer_book[j], our_block_height)}}

FarAhead == {p \in Qualifying : p.block_height > our_block_height + 10}

Retained == {sync_nodes[i] : i \in 1..Len(sync_nodes)}

C21_TruncationOnlyWhenSomePeerIsFarAhead ==
    pc # "send_sync_messages" =>
        IF FarAhead = {}
        THEN Retained = Qualifying
        ELSE /\ FarAhead \subseteq Retained
             /\ Retained \subseteq Qualifying
             /\ Cardinality(Retained \ FarAhead) <= 1
             /\ (Qualifying # FarAhead) => \E p \in Retained \ FarAhead :
                    \A q \in Qualifying \ FarAhead : p.block_height >= q.block_height

(***************************************************************************)
(* C22: AwaitHashes ends early exactly when the number of distinct peer    *)
(* addresses a BlockHashes event was received from reaches the number of   *)
(* GetSync requests sent; a second BlockHashes event of a peer replaces    *)
(* the peer's earlier list without raising the count, so that the result   *)
(* maps each responding peer to the list it sent last.                     *)
(***************************************************************************)
RespondingPeers == DOMAIN received_block_hashes

\* The map holds the list of the event last handled, under its sender.
LastListStored ==
    (pc \in {"receive_sync_hashes", "hashes_received"} /\ event.kind = "BlockHashes") =>
        /\ event.addr \in RespondingPeers
        /\ received_block_hashes[event.addr] = event.hashes

\* A step of AwaitHashes changes the map at the sender of the handled event
\* at most.
OnlySenderChanges ==
    /\ RespondingPeers \subseteq RespondingPeers'
    /\ RespondingPeers' \subseteq RespondingPeers \cup {event'.addr}
    /\ \A a \in RespondingPeers :
           a # event'.addr => received_block_hashes'[a] = received_block_hashes[a]

\* The phase ends with the event that makes the count reach the number of
\* requests.
EndsWhenAllAnswered ==
    Cardinality(RespondingPeers') >= hash_requests_sent(outbound) => pc' = "hashes_received"

C22_AwaitHashesStep ==
    pc = "receive_sync_hashes" =>
        /\ EndsWhenAllAnswered
        /\ (pc' = "hashes_received" /\ now < wake) =>
               Cardinality(RespondingPeers') = hash_requests_sent(outbound)
        /\ OnlySenderChanges
        /\ LastListStored'

C22_EndsEarlyExactlyWhenAllAnswered == [][C22_AwaitHashesStep]_vars

\* C22 as the code has it: before its deadlines the phase ends when the
\* count reaches the number of requests, or when the sync channel is closed.
C22_AmendedStep ==
    pc = "receive_sync_hashes" =>
        /\ EndsWhenAllAnswered
        /\ (pc' = "hashes_received" /\ now < wake /\ ~closed) =>
               Cardinality(RespondingPeers') = hash_requests_sent(outbound)
        /\ OnlySenderChanges
        /\ LastListStored'

C22_EndsEarlyWhenAllAnsweredOrClosed == [][C22_AmendedStep]_vars

\* Two peers were asked, one of them answered twice, and the phase ended
\* before its deadline with the answer of the other.
C22_Witness ==
    /\ pc = "hashes_received"
    /\ hash_requests_sent(outbound) = 2
    /\ RespondingPeers = {"A", "B"}
    /\ replaced
    /\ ~closed
    /\ event.kind = "BlockHashes"
    /\ received_block_hashes[event.addr] = event.hashes

(***************************************************************************)
(* C23: AwaitBlocks stops consuming events as soon as the number of Block  *)
(* events accumulated in the phase is at least the number of blocks        *)
(* requested, for every requested count: when it is 0 no event is          *)
(* consumed.  BlockHashes events that arrive in the phase are dropped and  *)
(* do not count.                                                           *)
(***************************************************************************)
C23_AwaitBlocksStep ==
    pc = "receive_sync_blocks" =>
        \* the phase is still waiting only while blocks are outstanding
        /\ Len(received_blocks) < sent_block_requests(outbound)
        \* nothing is consumed when nothing was requested
        /\ sent_block_requests(outbound) = 0 => event' = NoEvent
        \* an event of the other kind leaves the accumulated blocks alone
        /\ event'.kind = "BlockHashes" => received_blocks' = received_blocks

C23_StopsAsSoonAsRequestedCountIsReached == [][C23_AwaitBlocksStep]_vars

(***************************************************************************)
(* C24: the plan is determined by the received responses: whatever the     *)
(* order in which the peers of the map peer -> hash list are iterated, the *)
(* same ordered plan is computed (the ledger being the same), and hence    *)
(* the same order of process_received_block calls.                         *)
(***************************************************************************)
\* The plan run computes from the received map when it iterates the map in
\* the given order
PlanUnder(hash_order) ==
    unknown_blocks(order_block_hashes(
        [i \in 1..Len(hash_order) |->
            PeerHashes(hash_order[i], received_block_hashes[hash_order[i]])]))

C24_PlanIndependentOfIterationOrder ==
    PlanBuilt => \A hash_order \in key_orders(RespondingPeers) :
                     PlanUnder(hash_order) = block_order

(***************************************************************************)
(* C25: the assignment get_peer_blocks produces partitions the plan: every *)
(* hash of the filtered order is assigned to exactly one peer, a peer that *)
(* advertised it; each peer's request list holds the hashes assigned to    *)
(* it, in plan order; the returned peer list is exactly the set of peers   *)
(* with a non-empty request list; and the lengths of the request lists sum *)
(* to the length of the plan.                                              *)
(***************************************************************************)
PlanHashes == {block_order[i] : i \in 1..Len(block_order)}

Advertised(addr, h) ==
    /\ addr \in RespondingPeers
    /\ \E i \in 1..Len(received_block_hashes[addr]) : received_block_hashes[addr][i] = h

RECURSIVE SumRequestLengths(_)
SumRequestLengths(addrs) ==
    IF addrs = {} THEN 0
    ELSE LET a == CHOOSE x \in addrs : TRUE
         IN  Len(peer_block_requests[a]) + SumRequestLengths(addrs \ {a})

C25_AssignmentPartitionsThePlan ==
    PlanBuilt =>
        /\ DOMAIN block_peers = PlanHashes
        /\ \A h \in PlanHashes :
               /\ Advertised(block_peers[h], h)
               /\ {a \in DOMAIN peer_block_requests :
                       \E i \in 1..Len(peer_block_requests[a]) :
                           peer_block_requests[a][i] = h} = {block_peers[h]}
        /\ \A a \in DOMAIN peer_block_requests :
               /\ peer_block_requests[a] # <<>>
               /\ peer_block_requests[a] =
                      SelectSeq(block_order, LAMBDA h : block_peers[h] = a)
        /\ {peer_addresses[i] : i \in 1..Len(peer_addresses)} = DOMAIN peer_block_requests
        /\ Len(peer_addresses) = Cardinality(DOMAIN peer_block_requests)
        /\ SumRequestLengths(DOMAIN peer_block_requests) = Len(block_order)

\* A plan of two hashes that both peers advertised, one hash assigned to
\* each of them.
C25_Witness ==
    /\ PlanBuilt
    /\ Len(block_order) = 2
    /\ Cardinality(DOMAIN peer_block_requests) = 2
    /\ \A h \in PlanHashes : Advertised("A", h) /\ Advertised("B", h)

(***************************************************************************)
(* C26: for every peer that is assigned blocks and has a peer handle the   *)
(* run calls expecting_sync_blocks(n), n the number of hashes of the       *)
(* peer's request, then sends GetBlocks with exactly those hashes, then,   *)
(* after AwaitBlocks has ended and before the first process_received_block *)
(* call, cancel_sync; and request_blocks returns the sum of n over the     *)
(* peers that were sent a request.                                         *)
(***************************************************************************)
\* The places in the log of calls of the given operation on the given peer
CallsOn(op, addr) == {i \in 1..Len(calls) : calls[i].op = op /\ calls[i].addr = addr}

\* The places of the GetBlocks messages handed to the peer's handle
GetBlocksTo(addr) == {i \in CallsOn("send_payload", addr) : calls[i].arg.payload = "GetBlocks"}

AssignedWithHandle == {a \in DOMAIN peer_block_requests : get_peer_handle(peer_book, a)}

RECURSIVE SumExpected(_)
SumExpected(places) ==
    IF places = {} THEN 0
    ELSE LET i == CHOOSE x \in places : TRUE
         IN  calls[i].arg + SumExpected(places \ {i})

C27_FinishedSignalledOnceAfterIngest ==
    /\ Len(Called("finished_syncing_blocks")) <= 1
    /\ (pc = "done" /\ result \in {"Ok", "Err"} /\ block_order # <<>>) =>
           /\ Len(Called("finished_syncing_blocks")) = 1
           /\ calls[Len(calls)].op = "finished_syncing_blocks"

(***************************************************************************)
(* C28: get_candidates selects greedily over the pool's iteration order    *)
(* and only reads the pool: an entry is left out only if, when it is       *)
(* visited, adding its size would exceed max_size - BLOCK_HEADER_SIZE -    *)
(* COINBASE_TRANSACTION_SIZE, or it conflicts with the ledger, or it       *)
(* conflicts with a candidate already selected; an entry that is too large *)
(* does not end the scan, so a pool holding a single non-conflicting entry *)
(* of size S yields it for max_size = S + BLOCK_HEADER_SIZE +              *)
(* COINBASE_TRANSACTION_SIZE; the pool's map and total_size_in_bytes are   *)
(* what they were before the call.                                         *)
(***************************************************************************)
MaxPayload == last.key - BLOCK_HEADER_SIZE - COINBASE_TRANSACTION_SIZE

PoolEntries == {transactions[k] : k \in DOMAIN transactions}

\* The bytes selected when the first n candidates have been pushed
CandidateBytes(n) ==
    LET sum[i \in 0..n] == IF i = 0 THEN 0 ELSE sum[i - 1] + candidates[i].size_in_bytes
    IN  sum[n]

\* Entry e, visited when n candidates had been selected, had to be left out.
HadToBeLeftOut(e, n) ==
    \/ CandidateBytes(n) + e.size_in_bytes > MaxPayload
    \/ transaction_conflicts(storage, e.transaction)
    \/ \E i \in 1..n :
           \/ SerialNumbers(candidates[i].transaction) \cap SerialNumbers(e.transaction) # {}
           \/ Commitments(candidates[i].transaction) \cap Commitments(e.transaction) # {}
           \/ candidates[i].transaction.memorandum = e.transaction.memorandum

C28_CandidatesAreGreedyAndPoolIsOnlyRead ==
    last.op = "get_candidates" =>
        /\ pool = last.before
        /\ last.status = "Ok" =>
            /\ \A i \in 1..Len(candidates) : candidates[i] \in PoolEntries
            /\ \A i, j \in 1..Len(candidates) : i # j => candidates[i] # candidates[j]
            /\ \A e \in PoolEntries \ Range(candidates) :
                   \E n \in 0..Len(candidates) : HadToBeLeftOut(e, n)
            /\ \A e \in PoolEntries :
                   (/\ PoolEntries = {e}
                    /\ ~transaction_conflicts(storage, e.transaction)
                    /\ MaxPayload = e.size_in_bytes) => candidates = <<e>>

\* Of a pool of two entries that conflict with nothing, a call has selected
\* the one that fits and left out the other, which alone is too large.
C28_Witness ==
    /\ last.op = "get_candidates"
    /\ last.status = "Ok"
    /\ Cardinality(PoolEntries) = 2
    /\ Len(candidates) = 1
    /\ \E e \in PoolEntries \ Range(candidates) :
        /\ e.size_in_bytes > MaxPayload
        /\ ~transaction_conflicts(storage, e.transaction)
        /\ SerialNumbers(candidates[1].transaction) \cap SerialNumbers(e.transaction) = {}
        /\ Commitments(candidates[1].transaction) \cap Commitments(e.transaction) = {}
        /\ candidates[1].transaction.memorandum # e.transaction.memorandum

(***************************************************************************)
(* C29: a Pong received while the peer's expecting_pong flag is set clears *)
(* the flag and stores the round-trip time, u64::MAX when there is no      *)
(* last-ping timestamp, without marking a failure; a Pong received while   *)
(* the flag is clear marks a protocol failure on the peer and changes      *)
(* neither the flag nor the stored round-trip time; a Pong is never        *)
(* forwarded to the node's routing fabric.                                 *)
(***************************************************************************)
\* The handler has dispatched a Pong in this step.
PongDispatched ==
    /\ inbound_peer'.num_messages_received = inbound_peer.num_messages_received + 1
    /\ inbound_peer'.payload.kind = "Pong"

C29_PongStep ==
    PongDispatched =>
        /\ inbound_peer.expecting_pong =>
               /\ ~inbound_peer'.expecting_pong
               /\ inbound_peer'.failures = inbound_peer.failures
               /\ inbound_peer'.rtt_ms = IF inbound_peer.last_ping_sent = "None"
                                         THEN U64_MAX
                                         ELSE inbound_peer'.elapsed
        /\ ~inbound_peer.expecting_pong =>
               /\ inbound_peer'.failures = inbound_peer.failures + 1
               /\ ~inbound_peer'.expecting_pong
               /\ inbound_peer'.rtt_ms = inbound_peer.rtt_ms
        /\ inbound_peer'.routed = inbound_peer.routed
        /\ \A i \in 1..Len(inbound_peer'.routed) :
               inbound_peer'.routed[i].payload.kind # "Pong"

C29_PongIsJudgedByTheFlag == [][C29_PongStep]_vars

\* An awaited Pong has arrived on a connection that has no last-ping
\* timestamp, and after it a Pong that was not awaited.
C29_Witness ==
    /\ inbound_peer.payload.kind = "Pong"
    /\ inbound_peer.num_messages_received = 2
    /\ inbound_peer.inbound_pongs = 2
    /\ inbound_peer.last_ping_sent = "None"
    /\ inbound_peer.rtt_ms = U64_MAX
    /\ inbound_peer.failures = 1
    /\ inbound_peer.routed = <<>>

(***************************************************************************)
(* C30: only peers that were sent GetSync in this run influence the plan:  *)
(* a BlockHashes event from an address that was not sent GetSync neither   *)
(* counts toward the early completion of AwaitHashes nor contributes       *)
(* hashes to the plan, so that every peer that is sent GetBlocks is a peer *)
(* that was sent GetSync in the same run.                                  *)
(***************************************************************************)
SentTo(payload) == {Sent(payload)[i].to : i \in 1..Len(Sent(payload))}

C30_OnlyAskedPeersInfluenceThePlan ==
    \* the answers counted by AwaitHashes are answers of peers that were asked
    /\ RespondingPeers \subseteq SentTo("GetSync")
    \* every hash of the plan was advertised by a peer that was asked
    /\ PlanBuilt => \A h \in PlanHashes : \E a \in SentTo("GetSync") : Advertised(a, h)
    /\ SentTo("GetBlocks") \subseteq SentTo("GetSync")

(***************************************************************************)
(* C31: a Block event whose bytes are shorter than BLOCK_HEADER_SIZE does  *)
(* not abort the run: whatever bytes a peer delivers as a Block during     *)
(* AwaitBlocks, the run does not fail while it indexes the received        *)
(* blocks, and ingestion reaches its end.                                  *)
(***************************************************************************)
ShortBlockReceived ==
    \E i \in 1..Len(received_blocks) : too_short(received_blocks[i].block)

C31_ShortBlockDoesNotAbortTheRun ==
    /\ result # "Panic"
    /\ (pc = "done" /\ ShortBlockReceived) =>
           /\ result \in {"Ok", "Err"}
           /\ result = "Ok" => Called("finished_syncing_blocks") # <<>>

(***************************************************************************)
(* C32: when AwaitBlocks ends early because the accumulated count reached  *)
(* the requested count, a block has been received for every hash of the    *)
(* plan that was requested: Block events that are duplicates, that come    *)
(* from peers that were not asked, or whose hash is not in the plan cannot *)
(* make the phase end before its deadlines while a requested block is      *)
(* outstanding.                                                            *)
(***************************************************************************)
\* The hashes asked for in the GetBlocks messages of the run
RequestedHashes == UNION {Range(Sent("GetBlocks")[i].hashes) : i \in 1..Len(Sent("GetBlocks"))}

\* AwaitBlocks ends in this step, before its deadlines, with an event that
\* makes the count reach the number of blocks requested.  Only runs in which
\* every received block carries a full header are looked at, so that the
\* property is about the counting alone and not about short blocks (C31).
EndsOnCount ==
    /\ pc = "receive_sync_blocks"
    /\ pc' = "blocks_received"
    /\ now < wake
    /\ ~closed
    /\ Len(received_blocks') >= sent_block_requests(outbound)
    /\ \A i \in 1..Len(received_blocks') : ~too_short(received_blocks'[i].block)

C32_EarlyEndStep ==
    EndsOnCount =>
        \A h \in RequestedHashes :
            \E i \in 1..Len(received_blocks') :
                header_hash(received_blocks'[i].block) = h

C32_EarlyEndMeansAllRequestedBlocksArrived == [][C32_EarlyEndStep]_vars

====
